---------------------------- MODULE Spec2Model ----------------------------
(***************************************************************************)
(* A model of the FIPE vehicle database scrapers.                          *)
(*                                                                         *)
(*   src/unnamed/part_000, lines 290-894: the full scraper (httpGet,       *)
(*     fetchWithRetry, fetchFipeVehicles, fetchTPTVehicles,                *)
(*     fetchBombarcoVehicles, mergeAndValidate, compressAndWrite, main).   *)
(*                                                                         *)
(* Text is a sequence of one-character strings; a character outside ASCII  *)
(* is written by its code point ("U+00EB").  Prices are JavaScript numbers *)
(* and may have a fraction: the model keeps every price in hundredths      *)
(* (centavos), so that 10000.5 is 1000050.                                 *)
(***************************************************************************)
EXTENDS Integers, Sequences, FiniteSets, TLC

(***************************************************************************)
(* Bounds of the model.                                                    *)
(***************************************************************************)
\* longest input list handed to mergeAndValidate in SpecMerge
MaxLen == 3

\* the brands, the models of a brand and the years of a model the pricing API
\* lists in SpecFipe
MaxBrands == 2

MaxModels == 2

MaxYears == 2

\* the answers of the outside world that are not the nominal one, per run
MaxFaults == 1

\* the brands of a category in a whole run, of one model and one year each
MainBrands == 1

(***************************************************************************)
(* Program constants.                                                      *)
(***************************************************************************)
MAX_RETRIES == 3

(***************************************************************************)
(* Characters and text.                                                    *)
(***************************************************************************)
LowerChars ==
  <<"a","b","c","d","e","f","g","h","i","j","k","l","m",
    "n","o","p","q","r","s","t","u","v","w","x","y","z">>

UpperChars ==
  <<"A","B","C","D","E","F","G","H","I","J","K","L","M",
    "N","O","P","Q","R","S","T","U","V","W","X","Y","Z">>

DigitChars == <<"0","1","2","3","4","5","6","7","8","9">>

Range(s) == { s[k] : k \in DOMAIN s }

LowerSet == Range(LowerChars)

UpperSet == Range(UpperChars)

DigitSet == Range(DigitChars)

IsDigit(c) == c \in DigitSet

DigitValues == [c \in DigitSet |-> (CHOOSE k \in DOMAIN DigitChars : DigitChars[k] = c) - 1]

DigitValue(c) == DigitValues[c]

LowerOfUpper ==
  [c \in UpperSet |-> LowerChars[CHOOSE k \in DOMAIN UpperChars : UpperChars[k] = c]]

\* String.prototype.toLowerCase, one character
toLowerCase(c) ==
  IF c \in UpperSet THEN LowerOfUpper[c]
  ELSE IF c = "U+00CB" THEN "U+00EB"
  ELSE IF c = "U+00C3" THEN "U+00E3"
  ELSE c

\* String.prototype.normalize('NFD'), one character: base letter, then mark
NFD(c) ==
  IF c = "U+00EB" THEN <<"e", "U+0308">>
  ELSE IF c = "U+00E3" THEN <<"a", "U+0303">>
  ELSE <<c>>

\* the range [\u0300-\u036f] of combining marks
IsCombiningMark(c) == c \in {"U+0303", "U+0308"}

\* [a-z0-9]
SlugSet == LowerSet \cup DigitSet

IsSlugChar(c) == c \in SlugSet

RECURSIVE Flatten(_)
Flatten(ss) == IF ss = <<>> THEN <<>> ELSE Head(ss) \o Flatten(Tail(ss))

IsNotCombiningMark(c) == ~IsCombiningMark(c)

\* .replace(/-+/g, '-')
RECURSIVE CollapseHyphens(_)
CollapseHyphens(s) ==
  IF Len(s) < 2 THEN s
  ELSE IF s[1] = "-" /\ s[2] = "-" THEN CollapseHyphens(Tail(s))
  ELSE <<s[1]>> \o CollapseHyphens(Tail(s))

\* .replace(/^-|-$/g, ''): one hyphen at the start and one at the end
TrimHyphens(s) ==
  LET a == IF s # <<>> /\ s[1] = "-" THEN Tail(s) ELSE s
  IN  IF a # <<>> /\ a[Len(a)] = "-" THEN SubSeq(a, 1, Len(a) - 1) ELSE a

\* the clean arrow function of generateId
clean(s) ==
  LET lower    == [k \in DOMAIN s |-> toLowerCase(s[k])]
      nfd      == Flatten([k \in DOMAIN lower |-> NFD(lower[k])])
      stripped == SelectSeq(nfd, IsNotCombiningMark)
      dashed   == [k \in DOMAIN stripped |->
                     IF IsSlugChar(stripped[k]) THEN stripped[k] ELSE "-"]
  IN  TrimHyphens(CollapseHyphens(dashed))

\* the decimal digits of a natural number
RECURSIVE NatToText(_)
NatToText(n) ==
  IF n < 10 THEN <<DigitChars[n + 1]>>
  ELSE NatToText(n \div 10) \o <<DigitChars[(n % 10) + 1]>>

\* `${ano}` for an integer
NumberToText(n) == IF n < 0 THEN <<"-">> \o NatToText(-n) ELSE NatToText(n)

\* the characters of the type tags the scraper passes as literals
TipoText(tipo) ==
  CASE tipo = "carro"         -> <<"c","a","r","r","o">>
    [] tipo = "moto"          -> <<"m","o","t","o">>
    [] tipo = "caminhao"      -> <<"c","a","m","i","n","h","a","o">>
    [] tipo = "trator"        -> <<"t","r","a","t","o","r">>
    [] tipo = "colheitadeira" -> <<"c","o","l","h","e","i","t","a","d","e","i","r","a">>
    [] tipo = "barco"         -> <<"b","a","r","c","o">>

generateId(tipo, marca, modelo, ano) ==
  clean(TipoText(tipo)) \o <<"-">> \o clean(marca) \o <<"-">> \o clean(modelo)
    \o <<"-">> \o NumberToText(ano)

(***************************************************************************)
(* parsePrice.  The result is in hundredths; the texts the model feeds it  *)
(* carry at most two decimals.                                             *)
(***************************************************************************)
IsPriceChar(c) == IsDigit(c) \/ c \in {",", "."}

IsNotDot(c) == c # "."

\* .replace(',', '.'): the first comma only
RECURSIVE ReplaceFirstComma(_)
ReplaceFirstComma(s) ==
  IF s = <<>> THEN <<>>
  ELSE IF s[1] = "," THEN <<".">> \o Tail(s)
  ELSE <<s[1]>> \o ReplaceFirstComma(Tail(s))

\* the longest prefix of digits
RECURSIVE DigitPrefix(_)
DigitPrefix(s) ==
  IF s = <<>> \/ ~IsDigit(s[1]) THEN <<>>
  ELSE <<s[1]>> \o DigitPrefix(Tail(s))

RECURSIVE DigitsValue(_)
DigitsValue(ds) ==
  IF ds = <<>> THEN 0
  ELSE DigitsValue(SubSeq(ds, 1, Len(ds) - 1)) * 10 + DigitValue(ds[Len(ds)])

\* parseFloat of a text of digits, dots and commas: [nan, value in hundredths]
parseFloat(s) ==
  LET ip   == DigitPrefix(s)
      rest == SubSeq(s, Len(ip) + 1, Len(s))
      fp   == IF rest # <<>> /\ rest[1] = "." THEN DigitPrefix(Tail(rest)) ELSE <<>>
      f2   == SubSeq(fp \o <<"0","0">>, 1, 2)
  IN  IF ip = <<>> /\ fp = <<>>
        THEN [nan |-> TRUE, value |-> 0]
        ELSE [nan |-> FALSE, value |-> DigitsValue(ip) * 100 + DigitsValue(f2)]

parsePrice(priceStr) ==
  IF priceStr = <<>> THEN 0
  ELSE LET cleaned == ReplaceFirstComma(
                        SelectSeq(SelectSeq(priceStr, IsPriceChar), IsNotDot))
           value   == parseFloat(cleaned)
       IN  IF value.nan THEN 0 ELSE value.value

(***************************************************************************)
(* mergeAndValidate.  A Map keeps its keys in the order of their first     *)
(* insertion; set() on a present key replaces the value in place.          *)
(***************************************************************************)
\* a mutant of MapSet: the first record of an id is kept
MapSetKeepFirst(entries, key, value) ==
  IF \E k \in DOMAIN entries : entries[k].key = key
    THEN entries
    ELSE Append(entries, [key |-> key, value |-> value])

\* Map.prototype.set on a sequence of [key, value] entries
MapSet(entries, key, value) ==
  IF \E k \in DOMAIN entries : entries[k].key = key
    THEN [k \in DOMAIN entries |->
            IF entries[k].key = key THEN [key |-> key, value |-> value]
            ELSE entries[k]]
    ELSE Append(entries, [key |-> key, value |-> value])

\* a mutant of PassesValidation: the price test is left out
PassesValidationNoPrice(v) == v.marca # <<>> /\ v.modelo # <<>> /\ v.ano # 0

\* a mutant of PassesValidation: the condition is negated
PassesValidationInverted(v) ==
  ~(v.preco > 0 /\ v.marca # <<>> /\ v.modelo # <<>> /\ v.ano # 0)

\* v.preco > 0 && v.marca && v.modelo && v.ano
PassesValidation(v) ==
  v.preco > 0 /\ v.marca # <<>> /\ v.modelo # <<>> /\ v.ano # 0

\* the body of the loop: if (...) unique.set(v.id, v)
MergeOne(unique, v) ==
  IF PassesValidation(v) THEN MapSet(unique, v.id, v) ELSE unique

\* for (const v of list) ..., from the map unique on.  The loop is unrolled
\* by halves, and the map after the first half is computed before the second
\* half starts, so that the evaluation stays shallow.
RECURSIVE MergeLoop(_, _)
MergeLoop(unique, list) ==
  IF list = <<>> THEN unique
  ELSE IF Len(list) = 1 THEN MergeOne(unique, list[1])
  ELSE LET half == Len(list) \div 2
           left == MergeLoop(unique, SubSeq(list, 1, half))
       IN  IF left = <<>>
             THEN MergeLoop(<<>>, SubSeq(list, half + 1, Len(list)))
             ELSE MergeLoop(left, SubSeq(list, half + 1, Len(list)))

UniqueOf(allVehicles) == MergeLoop(<<>>, allVehicles)

\* a mutant of StatsOf: the entry of a type is set to 1 at each of its records
StatsOfPresence(vehicles) ==
  LET RECURSIVE Loop(_, _, _)
      Loop(stats, lo, hi) ==
        IF lo > hi THEN stats
        ELSE IF lo = hi
          THEN LET tipo == vehicles[lo].tipo
               IN  IF tipo \in DOMAIN stats THEN [stats EXCEPT ![tipo] = 1]
                   ELSE stats @@ (tipo :> 1)
        ELSE LET mid  == (lo + hi) \div 2
                 left == Loop(stats, lo, mid)
             IN  IF left = <<>> THEN Loop(<<>>, mid + 1, hi)
                 ELSE Loop(left, mid + 1, hi)
  IN  Loop(<<>>, 1, Len(vehicles))

\* for (const v of vehicles) stats[v.tipo] = (stats[v.tipo] || 0) + 1, from
\* the empty object on; the loop is unrolled by halves as in MergeLoop
StatsOf(vehicles) ==
  LET RECURSIVE Loop(_, _, _)
      Loop(stats, lo, hi) ==
        IF lo > hi THEN stats
        ELSE IF lo = hi
          THEN LET tipo == vehicles[lo].tipo
               IN  IF tipo \in DOMAIN stats THEN [stats EXCEPT ![tipo] = @ + 1]
                   ELSE stats @@ (tipo :> 1)
        ELSE LET mid  == (lo + hi) \div 2
                 left == Loop(stats, lo, mid)
             IN  IF left = <<>> THEN Loop(<<>>, mid + 1, hi)
                 ELSE Loop(left, mid + 1, hi)
  IN  Loop(<<>>, 1, Len(vehicles))

mergeAndValidate(allVehicles) ==
  LET unique   == UniqueOf(allVehicles)
      vehicles == [k \in DOMAIN unique |-> unique[k].value]
  IN  [vehicles |-> vehicles, stats |-> StatsOf(vehicles)]

(***************************************************************************)
(* The state.                                                              *)
(***************************************************************************)
VARIABLES
  pc,            \* main: the statement it is at
  allVehicles,   \* main: the accumulated records
  errors,        \* main: one message per collector that threw
  merged,        \* main: the result of mergeAndValidate
  result,        \* main: the result of compressAndWrite
  exitCode,      \* the exit code of the process, <<>> while it runs
  DRY_RUN,       \* process.argv.includes('--dry-run')
  fipe,          \* the frame of the running fetchFipeVehicles call
  cw,            \* the frame of the running compressAndWrite call
  fwr,           \* the frame of the running fetchWithRetry call
  files,         \* the output directory: file name -> <<content>> or <<>>
  written,       \* the names of the files written in this run, in order
  faults,        \* the answers of the outside world that were not nominal
  rng,           \* the state of the generator behind Math.random
  world,         \* the lengths of the lists the pricing API answers with
  log,           \* the requests issued and the sleeps taken, in order
  call,          \* the frame of a call of a function taken on its own
  hybrid,        \* the run of the hybrid scraper
  manager,       \* the run of the seed-first manager (scripts/fipe-scraper.cjs)
  http           \* the frame of the running httpGet call

vars ==
  <<pc, allVehicles, errors, merged, result, exitCode, DRY_RUN, fipe, cw, fwr,
    files, written, faults, rng, world, log, call, hybrid, manager, http>>

mainVars == <<pc, allVehicles, errors, merged, result, exitCode, DRY_RUN>>

IdleFipe ==
  [pc |-> "idle", apiTipo |-> "", dbTipo |-> "", vehicles |-> <<>>,
   marcas |-> <<>>, i |-> 0, modelos |-> <<>>, j |-> 0, anos |-> <<>>, k |-> 0]

IdleCw ==
  [pc |-> "idle", output |-> <<>>, jsonStr |-> <<>>, jsonSize |-> 0, gzipSize |-> 0]

IdleFwr ==
  [pc |-> "idle", url |-> "", retries |-> 0, i |-> 0, value |-> <<>>,
   error |-> <<>>, attempts |-> <<>>, waits |-> <<>>]

\* the three files of the output directory and the file GITHUB_OUTPUT names
NoFiles == [json |-> <<>>, gz |-> <<>>, metadata |-> <<>>, githubOutput |-> <<>>]

NoMerged == [vehicles |-> <<>>, stats |-> <<>>]

NoCall == [fn |-> "none"]

NoHybrid == [pc |-> "idle"]

NoManager == [pc |-> "idle"]

NoHttp == [pc |-> "idle"]

\* the programs and calls a specification is not about stay as they are
OthersIdle ==
  call = NoCall /\ hybrid = NoHybrid /\ manager = NoManager /\ http = NoHttp

NoWorld == [brands |-> 0, models |-> 0, years |-> 0]

\* the seeds of the generator the model starts from: the two ends of [0, 1)
RngSeeds == {0, 999}

\* Math.random(): the draw, in thousandths, and the generator's next state
RandomDraw(state) == state

RandomNext(state) == (state * 21 + 7) % 1000

(***************************************************************************)
(* fetchWithRetry(url, retries = MAX_RETRIES).  fetchJSON either resolves  *)
(* with the parsed document or rejects: a connection error, a status that  *)
(* is not 2xx, a timeout, or a body JSON.parse refuses.                    *)
(***************************************************************************)
Urls == {"/carros/marcas", "/motos/marcas"}

Documents == {"doc1", "doc2"}

FetchErrors == {"network", "http", "timeout", "parse"}

RECURSIVE Pow2(_)
Pow2(n) == IF n = 0 THEN 1 ELSE 2 * Pow2(n - 1)

\* a mutant of BackoffDelay: the base of the delay does not grow with i
BackoffDelayFlat(i, state) == 1000 + (RandomDraw(state) * 500) \div 1000

\* Math.pow(2, i) * 1000 + Math.random() * 500, in milliseconds (floor)
BackoffDelay(i, state) == Pow2(i) * 1000 + (RandomDraw(state) * 500) \div 1000

\* the attempt resolves: return await fetchJSON(url)
FwrAttemptOk ==
  /\ fwr.pc = "attempt"
  /\ fwr.i < fwr.retries
  /\ \E doc \in Documents :
       fwr' = [fwr EXCEPT !.pc = "returned", !.value = <<doc>>,
                          !.attempts = Append(@, doc)]
  /\ UNCHANGED <<mainVars, fipe, cw, files, written, faults, rng, world, call, hybrid, manager, http, log>>

\* a mutant of FwrAttemptFailSleep: the catch block sleeps after the last
\* attempt too
FwrAttemptFailSleepAlways ==
  /\ fwr.pc = "attempt"
  /\ fwr.i < fwr.retries
  /\ \E e \in FetchErrors :
       fwr' = [fwr EXCEPT !.pc = "sleep",
                          !.attempts = Append(@, e),
                          !.waits = Append(@, BackoffDelay(fwr.i, rng))]
  /\ rng' = RandomNext(rng)
  /\ UNCHANGED <<mainVars, fipe, cw, files, written, faults, world, call, hybrid, manager, http, log>>

\* the attempt rejects and is not the last: the catch block sleeps
FwrAttemptFailSleep ==
  /\ fwr.pc = "attempt"
  /\ fwr.i < fwr.retries - 1
  /\ \E e \in FetchErrors :
       fwr' = [fwr EXCEPT !.pc = "sleep",
                          !.attempts = Append(@, e),
                          !.waits = Append(@, BackoffDelay(fwr.i, rng))]
  /\ rng' = RandomNext(rng)
  /\ UNCHANGED <<mainVars, fipe, cw, files, written, faults, world, call, hybrid, manager, http, log>>

\* a mutant of FwrAttemptFailThrow: the function throws at any failed attempt
FwrAttemptFailThrowFirst ==
  /\ fwr.pc = "attempt"
  /\ fwr.i < fwr.retries
  /\ \E e \in FetchErrors :
       fwr' = [fwr EXCEPT !.pc = "thrown", !.i = @ + 1,
                          !.attempts = Append(@, e),
                          !.error = <<[attempts |-> fwr.retries, url |-> fwr.url]>>]
  /\ UNCHANGED <<mainVars, fipe, cw, files, written, faults, rng, world, call, hybrid, manager, http, log>>

\* the attempt rejects and is the last: the loop ends and the function throws
FwrAttemptFailThrow ==
  /\ fwr.pc = "attempt"
  /\ fwr.i = fwr.retries - 1
  /\ \E e \in FetchErrors :
       fwr' = [fwr EXCEPT !.pc = "thrown", !.i = @ + 1,
                          !.attempts = Append(@, e),
                          !.error = <<[attempts |-> fwr.retries, url |-> fwr.url]>>]
  /\ UNCHANGED <<mainVars, fipe, cw, files, written, faults, rng, world, call, hybrid, manager, http, log>>

\* the sleep ends: i++ and the next turn of the loop
FwrWake ==
  /\ fwr.pc = "sleep"
  /\ fwr' = [fwr EXCEPT !.pc = "attempt", !.i = @ + 1]
  /\ UNCHANGED <<mainVars, fipe, cw, files, written, faults, rng, world, call, hybrid, manager, http, log>>

InitRetry ==
  /\ pc = "none"
  /\ allVehicles = <<>> /\ errors = <<>> /\ merged = NoMerged /\ result = <<>>
  /\ exitCode = <<>> /\ DRY_RUN = FALSE
  /\ fipe = IdleFipe /\ cw = IdleCw
  /\ \E u \in Urls :
       fwr = [IdleFwr EXCEPT !.pc = "attempt", !.url = u, !.retries = MAX_RETRIES]
  /\ files = NoFiles /\ written = <<>> /\ faults = {} /\ log = <<>>
  /\ world = NoWorld
  /\ OthersIdle
  /\ rng \in RngSeeds

NextRetry == FwrAttemptOk \/ FwrAttemptFailSleep \/ FwrAttemptFailThrow \/ FwrWake

SpecRetry == InitRetry /\ [][NextRetry]_vars

(***************************************************************************)
(* The outside world.  A request is named by its place in the hierarchy:   *)
(* the category, then the brand, the model and the year (0 where the level *)
(* does not apply).  Every request has a nominal answer; an answer that is *)
(* not nominal is recorded in faults, and a run sees at most MaxFaults.    *)
(***************************************************************************)
Node(cat, b, j, k) == [cat |-> cat, b |-> b, j |-> j, k |-> k]

\* a log entry: a request to a site for a level of the hierarchy (0 the brand
\* list, 1 a model list, 2 a year list, 3 a price), or a sleep of ms
LogGet(site, cat, level) ==
  [op |-> "get", site |-> site, cat |-> cat, level |-> level, ms |-> 0]

LogSleep(cat, ms) == [op |-> "sleep", site |-> "", cat |-> cat, level |-> 0, ms |-> ms]

MayAnswer(kind) == kind = "ok" \/ Cardinality(faults) < MaxFaults

Answered(node, kind) ==
  IF kind = "ok" THEN faults ELSE faults \cup {[node |-> node, kind |-> kind]}

FaultAt(node) ==
  IF \E f \in faults : f.node = node
    THEN (CHOOSE f \in faults : f.node = node).kind
    ELSE "ok"

BrandNomes ==
  << <<"F","i","a","t">>, <<"V","W">>, <<"B","M","W">>, <<"A","u","d","i">> >>

\* GET /{tipo}/marcas
MarcasAnswer(n) == [b \in 1..n |-> [nome |-> BrandNomes[b], codigo |-> b]]

\* GET brasilapi /marcas/v1/{tipo}
BrasilApiAnswer(n) == [b \in 1..n |-> [nome |-> BrandNomes[b], valor |-> b]]

\* GET /{tipo}/marcas/{marca}/modelos, the modelos of the answer
ModelosAnswer(n) ==
  [j \in 1..n |-> [nome |-> <<"U","p","!"," ">> \o NatToText(j), codigo |-> j]]

\* GET .../modelos/{modelo}/anos
AnosAnswer(n) ==
  [k \in 1..n |-> [nome |-> NatToText(2010 + k) \o <<" ","F","l","e","x">>,
                   codigo |-> k]]

\* GET .../anos/{ano}: the price record, by the kind of answer
DetalheAnswer(k, kind) ==
  [Valor      |-> IF kind = "price0"
                    THEN <<"R","$"," ","0",",","0","0">>
                    ELSE <<"R","$"," ","1","0",".","0","0","0",",","0","0">>,
   AnoModelo  |-> CASE kind = "noAnoModelo" -> <<>>
                    [] kind = "yearNaN"     -> <<"N","/","A">>
                    [] OTHER                -> NatToText(2010 + k),
   CodigoFipe |-> <<"0","0","1">>]

\* parseInt(text, 10): blanks, a sign, then the longest prefix of digits
RECURSIVE SkipBlanks(_)
SkipBlanks(s) == IF s # <<>> /\ s[1] = " " THEN SkipBlanks(Tail(s)) ELSE s

parseInt(s) ==
  LET t      == SkipBlanks(s)
      neg    == t # <<>> /\ t[1] = "-"
      u      == IF t # <<>> /\ t[1] \in {"-", "+"} THEN Tail(t) ELSE t
      digits == DigitPrefix(u)
  IN  IF digits = <<>>
        THEN [nan |-> TRUE, value |-> 0]
        ELSE [nan |-> FALSE,
              value |-> IF neg THEN -DigitsValue(digits) ELSE DigitsValue(digits)]

(***************************************************************************)
(* fetchFipeVehicles(apiTipo, dbTipo).  Every fetchWithRetry call is one   *)
(* step: it returns the document or throws after its attempts.             *)
(***************************************************************************)
SLEEP_MODEL == 50

SLEEP_BRAND == 100

FipeNode(b, j, k) == Node(fipe.apiTipo, b, j, k)

\* after the body of the year loop: the next year, or the end of the loop
AfterAno(f) ==
  IF f.k < Len(f.anos) THEN [f EXCEPT !.k = @ + 1]
  ELSE [f EXCEPT !.pc = "sleepModel"]

\* marcas = await fetchWithRetry(`${FIPE_BASE}/${apiTipo}/marcas`)
FipeMarcas ==
  /\ fipe.pc = "marcas"
  /\ \E kind \in {"ok", "empty", "primaryFail", "bothFail"} :
       /\ MayAnswer(kind)
       /\ faults' = Answered(FipeNode(0, 0, 0), kind)
       /\ fipe' =
            IF kind \in {"primaryFail", "bothFail"}
              THEN [fipe EXCEPT !.pc = "fallback"]
              ELSE LET marcas == MarcasAnswer(IF kind = "empty" THEN 0 ELSE world.brands)
                   IN  [fipe EXCEPT !.marcas = marcas, !.i = 0,
                                    !.pc = IF marcas = <<>> THEN "returned" ELSE "modelos"]
  /\ log' = Append(log, LogGet("fipe", fipe.apiTipo, 0))
  /\ UNCHANGED <<mainVars, cw, fwr, files, written, rng, world, call, hybrid, manager, http>>

\* catch: marcas = await fetchWithRetry(`${BRASIL_API_BASE}/marcas/v1/${apiTipo}`)
\*        marcas = marcas.map(m => ({ nome: m.nome, codigo: m.valor || m.codigo }))
FipeFallback ==
  /\ fipe.pc = "fallback"
  /\ fipe' =
       IF FaultAt(FipeNode(0, 0, 0)) = "bothFail"
         THEN [fipe EXCEPT !.pc = "thrown"]
         ELSE LET answer == BrasilApiAnswer(world.brands)
                  marcas == [b \in DOMAIN answer |->
                               [nome |-> answer[b].nome, codigo |-> answer[b].valor]]
              IN  [fipe EXCEPT !.marcas = marcas, !.i = 0,
                               !.pc = IF marcas = <<>> THEN "returned" ELSE "modelos"]
  /\ log' = Append(log, LogGet("brasilapi", fipe.apiTipo, 0))
  /\ UNCHANGED <<mainVars, cw, fwr, files, written, faults, rng, world, call, hybrid, manager, http>>

\* modelosData = await fetchWithRetry(.../marcas/${codigoMarca}/modelos)
FipeModelos ==
  /\ fipe.pc = "modelos"
  /\ LET b == fipe.marcas[fipe.i + 1].codigo
     IN  /\ \E kind \in {"ok", "empty", "fail"} :
              /\ MayAnswer(kind)
              /\ faults' = Answered(FipeNode(b, 0, 0), kind)
              /\ fipe' =
                   IF kind = "fail"
                     THEN [fipe EXCEPT !.pc = "sleepBrand"]
                     ELSE LET modelos ==
                                ModelosAnswer(IF kind = "empty" THEN 0 ELSE world.models)
                          IN  [fipe EXCEPT
                                 !.modelos = modelos, !.j = 1,
                                 !.pc = IF modelos = <<>> THEN "sleepBrand" ELSE "anos"]
         /\ log' = Append(log, LogGet("fipe", fipe.apiTipo, 1))
  /\ UNCHANGED <<mainVars, cw, fwr, files, written, rng, world, call, hybrid, manager, http>>

\* a mutant of FipeAnos: a year list that fails ends the brand, not the model
FipeAnosAbort ==
  /\ fipe.pc = "anos"
  /\ LET b == fipe.marcas[fipe.i + 1].codigo
         j == fipe.modelos[fipe.j].codigo
     IN  /\ \E kind \in {"ok", "empty", "fail"} :
              /\ MayAnswer(kind)
              /\ faults' = Answered(FipeNode(b, j, 0), kind)
              /\ fipe' =
                   IF kind = "fail"
                     THEN [fipe EXCEPT !.pc = "sleepBrand"]
                     ELSE LET anos == AnosAnswer(IF kind = "empty" THEN 0 ELSE world.years)
                          IN  [fipe EXCEPT
                                 !.anos = anos, !.k = 1,
                                 !.pc = IF anos = <<>> THEN "sleepModel" ELSE "detalhe"]
         /\ log' = Append(log, LogGet("fipe", fipe.apiTipo, 2))
  /\ UNCHANGED <<mainVars, cw, fwr, files, written, rng, world, call, hybrid, manager, http>>

\* anos = await fetchWithRetry(.../modelos/${codigoModelo}/anos)
FipeAnos ==
  /\ fipe.pc = "anos"
  /\ LET b == fipe.marcas[fipe.i + 1].codigo
         j == fipe.modelos[fipe.j].codigo
     IN  /\ \E kind \in {"ok", "empty", "fail"} :
              /\ MayAnswer(kind)
              /\ faults' = Answered(FipeNode(b, j, 0), kind)
              /\ fipe' =
                   IF kind = "fail"
                     THEN [fipe EXCEPT !.pc = "sleepModel"]
                     ELSE LET anos == AnosAnswer(IF kind = "empty" THEN 0 ELSE world.years)
                          IN  [fipe EXCEPT
                                 !.anos = anos, !.k = 1,
                                 !.pc = IF anos = <<>> THEN "sleepModel" ELSE "detalhe"]
         /\ log' = Append(log, LogGet("fipe", fipe.apiTipo, 2))
  /\ UNCHANGED <<mainVars, cw, fwr, files, written, rng, world, call, hybrid, manager, http>>

\* the record pushed for a price record, <<>> when the leaf is skipped
\* a mutant of FipeRecord: a price of zero is not skipped
FipeRecordKeepZero(dbTipo, marca, modelo, ano, detalhe) ==
  LET preco  == parsePrice(detalhe.Valor)
      anoNum == parseInt(IF detalhe.AnoModelo # <<>> THEN detalhe.AnoModelo
                         ELSE ano.nome)
  IN  IF anoNum.nan THEN <<>>
      ELSE << [id        |-> generateId(dbTipo, marca.nome, modelo.nome, anoNum.value),
               tipo      |-> dbTipo,
               marca     |-> marca.nome,
               modelo    |-> modelo.nome,
               ano       |-> anoNum.value,
               preco     |-> preco,
               fipe_code |-> detalhe.CodigoFipe] >>

FipeRecord(dbTipo, marca, modelo, ano, detalhe) ==
  LET preco  == parsePrice(detalhe.Valor)
      anoNum == parseInt(IF detalhe.AnoModelo # <<>> THEN detalhe.AnoModelo
                         ELSE ano.nome)
  IN  IF preco <= 0 THEN <<>>
      ELSE IF anoNum.nan THEN <<>>
      ELSE << [id        |-> generateId(dbTipo, marca.nome, modelo.nome, anoNum.value),
               tipo      |-> dbTipo,
               marca     |-> marca.nome,
               modelo    |-> modelo.nome,
               ano       |-> anoNum.value,
               preco     |-> preco,
               fipe_code |-> detalhe.CodigoFipe] >>

\* a mutant of FipeDetalhe: a leaf that is skipped ends the loop over the
\* years of the model (break in the place of continue)
FipeDetalheBreak ==
  /\ fipe.pc = "detalhe"
  /\ LET marca  == fipe.marcas[fipe.i + 1]
         modelo == fipe.modelos[fipe.j]
         ano    == fipe.anos[fipe.k]
         node   == FipeNode(marca.codigo, modelo.codigo, ano.codigo)
     IN  /\ \E kind \in {"ok", "noAnoModelo", "price0", "yearNaN", "fail"} :
              /\ MayAnswer(kind)
              /\ faults' = Answered(node, kind)
              /\ fipe' =
                   IF kind = "fail"
                     THEN AfterAno(fipe)
                     ELSE IF kind \in {"price0", "yearNaN"}
                     THEN [fipe EXCEPT !.pc = "sleepModel"]
                     ELSE AfterAno(
                            [fipe EXCEPT !.vehicles =
                               @ \o FipeRecord(fipe.dbTipo, marca, modelo, ano,
                                               DetalheAnswer(ano.codigo, kind))])
         /\ log' = Append(log, LogGet("fipe", fipe.apiTipo, 3))
  /\ UNCHANGED <<mainVars, cw, fwr, files, written, rng, world, call, hybrid, manager, http>>

\* detalhe = await fetchWithRetry(.../anos/${ano.codigo}), and the push
FipeDetalhe ==
  /\ fipe.pc = "detalhe"
  /\ LET marca  == fipe.marcas[fipe.i + 1]
         modelo == fipe.modelos[fipe.j]
         ano    == fipe.anos[fipe.k]
         node   == FipeNode(marca.codigo, modelo.codigo, ano.codigo)
     IN  /\ \E kind \in {"ok", "noAnoModelo", "price0", "yearNaN", "fail"} :
              /\ MayAnswer(kind)
              /\ faults' = Answered(node, kind)
              /\ fipe' =
                   IF kind = "fail"
                     THEN AfterAno(fipe)
                     ELSE AfterAno(
                            [fipe EXCEPT !.vehicles =
                               @ \o FipeRecord(fipe.dbTipo, marca, modelo, ano,
                                               DetalheAnswer(ano.codigo, kind))])
         /\ log' = Append(log, LogGet("fipe", fipe.apiTipo, 3))
  /\ UNCHANGED <<mainVars, cw, fwr, files, written, rng, world, call, hybrid, manager, http>>

\* await sleep(50) at the end of the model loop's body
FipeSleepModel ==
  /\ fipe.pc = "sleepModel"
  /\ fipe' = IF fipe.j < Len(fipe.modelos)
               THEN [fipe EXCEPT !.j = @ + 1, !.pc = "anos"]
               ELSE [fipe EXCEPT !.pc = "sleepBrand"]
  /\ log' = Append(log, LogSleep(fipe.apiTipo, SLEEP_MODEL))
  /\ UNCHANGED <<mainVars, cw, fwr, files, written, faults, rng, world, call, hybrid, manager, http>>

\* await sleep(100) at the end of the brand loop's body, then i++
FipeSleepBrand ==
  /\ fipe.pc = "sleepBrand"
  /\ fipe' = [fipe EXCEPT !.i = @ + 1,
                          !.pc = IF fipe.i + 1 < Len(fipe.marcas)
                                   THEN "modelos" ELSE "returned"]
  /\ log' = Append(log, LogSleep(fipe.apiTipo, SLEEP_BRAND))
  /\ UNCHANGED <<mainVars, cw, fwr, files, written, faults, rng, world, call, hybrid, manager, http>>

FipeStep ==
  \/ FipeMarcas \/ FipeFallback \/ FipeModelos \/ FipeAnos \/ FipeDetalhe
  \/ FipeSleepModel \/ FipeSleepBrand

\* the three calls main makes
Categories ==
  << [apiTipo |-> "carros", dbTipo |-> "carro"],
     [apiTipo |-> "motos", dbTipo |-> "moto"],
     [apiTipo |-> "caminhoes", dbTipo |-> "caminhao"] >>

FipeCall(c) ==
  [IdleFipe EXCEPT !.pc = "marcas", !.apiTipo = Categories[c].apiTipo,
                   !.dbTipo = Categories[c].dbTipo]

(***************************************************************************)
(* One call of fetchFipeVehicles, for each of the three categories.        *)
(***************************************************************************)
InitFipe ==
  /\ pc = "none"
  /\ allVehicles = <<>> /\ errors = <<>> /\ merged = NoMerged /\ result = <<>>
  /\ exitCode = <<>> /\ DRY_RUN = FALSE
  /\ \E c \in DOMAIN Categories : fipe = FipeCall(c)
  /\ cw = IdleCw /\ fwr = IdleFwr
  /\ files = NoFiles /\ written = <<>> /\ faults = {} /\ log = <<>>
  /\ world = [brands |-> MaxBrands, models |-> MaxModels, years |-> MaxYears]
  /\ OthersIdle
  /\ rng = 0

NextFipe == FipeStep

SpecFipe == InitFipe /\ [][NextFipe]_vars

(***************************************************************************)
(* The seed generators of the tractor and boat collectors.  The catalogs   *)
(* of the model hold the first model of the first maker of each list (and, *)
(* for the boats, the first jet ski maker too); the year windows and the   *)
(* price formulas are the program's.                                       *)
(***************************************************************************)
\* new Date().getFullYear()
CurrentYear == 2026

Max(a, b) == IF a >= b THEN a ELSE b

\* Math.round(n / d) for n >= 0, d > 0
RoundDiv(n, d) == (2 * n + d) \div (2 * d)

\* the generator's state after n draws
RECURSIVE RandomAfter(_, _)
RandomAfter(state, n) == IF n = 0 THEN state ELSE RandomNext(RandomAfter(state, n - 1))

\* Math.round((base + Math.random() * span) * Math.max(1 - age * rate, floor)),
\* in hundredths; the rate and the floor are in percent, span a multiple of 1000
SeedPrice(base, span, draw, age, ratePct, floorPct) ==
  RoundDiv((base + (span \div 1000) * draw) * Max(100 - age * ratePct, floorPct), 100)
    * 100

\* the records of one maker's model over the window, drawing from state on
SeedRecords(tipo, marca, modelo, window, base, span, ratePct, floorPct, state) ==
  [n \in 1..(window + 1) |->
     LET ano == CurrentYear - window + (n - 1)
     IN  [id     |-> generateId(tipo, marca, modelo, ano),
          tipo   |-> tipo,
          marca  |-> marca,
          modelo |-> modelo,
          ano    |-> ano,
          preco  |-> SeedPrice(base, span, RandomDraw(RandomAfter(state, n - 1)),
                               CurrentYear - ano, ratePct, floorPct)]]

TPT_WINDOW == 15

COLHEITADEIRA_WINDOW == 12

BOMBARCO_WINDOW == 12

\* generateTPTSeedData(): [vehicles, rng]
generateTPTSeedData(state) ==
  LET tratores == SeedRecords("trator", <<"J","o","h","n"," ","D","e","e","r","e">>, <<"5","0","7","5","E">>,
                              TPT_WINDOW, 150000, 800000, 4, 30, state)
      state2   == RandomAfter(state, Len(tratores))
      colheit  == SeedRecords("colheitadeira", <<"J","o","h","n"," ","D","e","e","r","e">>, <<"S","5","4","0">>,
                              COLHEITADEIRA_WINDOW, 600000, 1500000, 5, 25, state2)
  IN  [vehicles |-> tratores \o colheit,
       rng      |-> RandomAfter(state2, Len(colheit))]

\* generateBombarcoSeedData(): [vehicles, rng]
generateBombarcoSeedData(state) ==
  LET boats  == SeedRecords("barco", <<"S","c","h","a","e","f","e","r"," ","Y","a","c","h","t","s">>, <<"3","0","3">>,
                            BOMBARCO_WINDOW, 80000, 1200000, 6, 20, state)
      state2 == RandomAfter(state, Len(boats))
      jets   == SeedRecords("barco", <<"S","e","a","-","D","o","o">>, <<"G","T","I"," ","9","0">>,
                            BOMBARCO_WINDOW, 40000, 120000, 6, 20, state2)
  IN  [vehicles |-> boats \o jets,
       rng      |-> RandomAfter(state2, Len(jets))]

(***************************************************************************)
(* fetchTPTVehicles and fetchBombarcoVehicles.  The markup scraping is an  *)
(* outside collaborator: the model gives the rows and listings it finds.   *)
(***************************************************************************)
\* the table rows cheerio finds on the TPT page, by the kind of answer
TptRows(kind) ==
  CASE kind = "row"     -> << [marca |-> <<"V","a","l","t","r","a">>, modelo |-> <<"A","8","4">>,
                               ano |-> <<"2","0","2","0">>, preco |-> <<"R","$"," ","2","0","0",".","0","0","0",",","0","0">>] >>
    [] kind = "rowAno0" -> << [marca |-> <<"V","a","l","t","r","a">>, modelo |-> <<"A","8","4">>,
                               ano |-> <<"0">>, preco |-> <<"R","$"," ","2","0","0",".","0","0","0",",","0","0">>] >>
    [] kind = "rowBad"  -> << [marca |-> <<"V","a","l","t","r","a">>, modelo |-> <<"A","8","4">>,
                               ano |-> <<"n","/","d">>, preco |-> <<"R","$"," ","2","0","0",".","0","0","0",",","0","0">>],
                              [marca |-> <<"V","a","l","t","r","a">>, modelo |-> <<>>,
                               ano |-> <<"2","0","2","0">>, preco |-> <<"R","$"," ","2","0","0",".","0","0","0",",","0","0">>],
                              [marca |-> <<"V","a","l","t","r","a">>, modelo |-> <<"A","8","4">>,
                               ano |-> <<"2","0","2","0">>, preco |-> <<"-">>] >>
    [] OTHER            -> <<>>

\* the body of $('table tr').each for one row: the record pushed, or none
TptRecord(row) ==
  LET ano   == parseInt(row.ano)
      preco == parsePrice(row.preco)
  IN  IF row.marca # <<>> /\ row.modelo # <<>> /\ ~ano.nan /\ preco > 0
        THEN << [id     |-> generateId("trator", row.marca, row.modelo, ano.value),
                 tipo   |-> "trator",
                 marca  |-> row.marca,
                 modelo |-> row.modelo,
                 ano    |-> ano.value,
                 preco  |-> preco] >>
        ELSE <<>>

\* generateTPTSeedData(), computed once for each state of the generator a run
\* can call it in
TPTSeedData == [state \in RngSeeds |-> generateTPTSeedData(state)]

\* a mutant of fetchTPTVehicles: the rows scraped are returned also when
\* there is none
fetchTPTVehiclesNoFallback(kind, state) ==
  IF kind \in {"fail", "nocheerio"} THEN TPTSeedData[state]
  ELSE LET rows     == TptRows(kind)
           vehicles == Flatten([n \in DOMAIN rows |-> TptRecord(rows[n])])
       IN  [vehicles |-> vehicles, rng |-> state]

\* fetchTPTVehicles(): [vehicles, rng]
fetchTPTVehicles(kind, state) ==
  IF kind \in {"fail", "nocheerio"} THEN TPTSeedData[state]
  ELSE LET rows     == TptRows(kind)
           vehicles == Flatten([n \in DOMAIN rows |-> TptRecord(rows[n])])
       IN  IF Len(vehicles) > 0 THEN [vehicles |-> vehicles, rng |-> state]
           ELSE TPTSeedData[state]

\* title.split(/\s+/) of a trimmed title
RECURSIVE Words(_)
Words(s) ==
  IF s = <<>> THEN <<>>
  ELSE IF s[1] = " " THEN Words(Tail(s))
  ELSE LET n == CHOOSE m \in 1..Len(s) :
                  /\ \A q \in 1..m : s[q] # " "
                  /\ (m = Len(s) \/ s[m + 1] = " ")
       IN  <<SubSeq(s, 1, n)>> \o Words(SubSeq(s, n + 1, Len(s)))

\* parts.slice(1).join(' ')
RECURSIVE JoinBlank(_)
JoinBlank(parts) ==
  IF parts = <<>> THEN <<>>
  ELSE IF Len(parts) = 1 THEN parts[1]
  ELSE parts[1] \o <<" ">> \o JoinBlank(Tail(parts))

BOMBARCO_MIN == 10

\* the listings cheerio finds on the Bombarco page, by the kind of answer
BombarcoListings(kind) ==
  LET listing(n) == [title |-> <<"F","o","c","k","e","r"," ">> \o NatToText(n), price |-> <<"R","$"," ","1","5","0",".","0","0","0">>]
  IN  CASE kind = "atThreshold"   -> [n \in 1..BOMBARCO_MIN |-> listing(n)]
        [] kind = "overThreshold" -> [n \in 1..(BOMBARCO_MIN + 1) |-> listing(n)]
        [] kind = "noPrice"       -> << [title |-> <<"F","o","c","k","e","r"," ">>, price |-> <<>>] >>
        [] OTHER                  -> <<>>

\* the body of the listing callback: the record pushed, or none
BombarcoRecord(listing) ==
  IF listing.title # <<>> /\ listing.price # <<>> /\ parsePrice(listing.price) > 0
    THEN LET parts  == Words(listing.title)
             marca  == IF parts # <<>> /\ parts[1] # <<>> THEN parts[1]
                       ELSE <<"D","e","s","c","o","n","h","e","c","i","d","a">>
             rest   == IF parts = <<>> THEN <<>> ELSE JoinBlank(Tail(parts))
             modelo == IF rest # <<>> THEN rest ELSE listing.title
         IN  << [id     |-> generateId("barco", marca, modelo, CurrentYear),
                 tipo   |-> "barco",
                 marca  |-> marca,
                 modelo |-> modelo,
                 ano    |-> CurrentYear,
                 preco  |-> parsePrice(listing.price)] >>
    ELSE <<>>

\* generateBombarcoSeedData(), computed once for each state of the generator a
\* run can call it in: the first call of Math.random, or after the TPT seed
BombarcoSeedData ==
  [state \in RngSeeds \cup { TPTSeedData[s].rng : s \in RngSeeds } |->
     generateBombarcoSeedData(state)]

\* fetchBombarcoVehicles(): [vehicles, rng]
fetchBombarcoVehicles(kind, state) ==
  IF kind \in {"fail", "nocheerio"} THEN BombarcoSeedData[state]
  ELSE LET listings == BombarcoListings(kind)
           vehicles == Flatten([n \in DOMAIN listings |-> BombarcoRecord(listings[n])])
       IN  IF Len(vehicles) > BOMBARCO_MIN THEN [vehicles |-> vehicles, rng |-> state]
           ELSE BombarcoSeedData[state]

(***************************************************************************)
(* main, steps 1 to 3: the five collectors, each in its own try block.     *)
(***************************************************************************)
\* the statement after the call for category c
AfterCategory(c) ==
  IF c < Len(Categories) THEN Categories[c + 1].apiTipo ELSE "tpt"

CategoryAt(label) == CHOOSE c \in DOMAIN Categories : Categories[c].apiTipo = label

ApiTipos == { Categories[c].apiTipo : c \in DOMAIN Categories }

\* await fetchFipeVehicles(apiTipo, dbTipo): the call
MainCallFipe ==
  /\ pc \in ApiTipos /\ fipe.pc = "idle"
  /\ fipe' = FipeCall(CategoryAt(pc))
  /\ UNCHANGED <<mainVars, cw, fwr, files, written, faults, rng, world, call, hybrid, manager, http, log>>

\* a mutant of MainFipeReturned: the records of the category go to the front
MainFipeReturnedPrepend ==
  /\ pc \in ApiTipos /\ fipe.pc = "returned"
  /\ allVehicles' = fipe.vehicles \o allVehicles
  /\ pc' = AfterCategory(CategoryAt(pc))
  /\ fipe' = IdleFipe
  /\ UNCHANGED <<errors, merged, result, exitCode, DRY_RUN, cw, fwr, files,
                 written, faults, rng, world, call, hybrid, manager, http, log>>

\* allVehicles.push(...carros)
MainFipeReturned ==
  /\ pc \in ApiTipos /\ fipe.pc = "returned"
  /\ allVehicles' = allVehicles \o fipe.vehicles
  /\ pc' = AfterCategory(CategoryAt(pc))
  /\ fipe' = IdleFipe
  /\ UNCHANGED <<errors, merged, result, exitCode, DRY_RUN, cw, fwr, files,
                 written, faults, rng, world, call, hybrid, manager, http, log>>

\* a mutant of MainFipeFailed: the failure is not caught and ends the run
MainFipeFailedAbort ==
  /\ pc \in ApiTipos /\ fipe.pc = "thrown"
  /\ pc' = "done"
  /\ exitCode' = <<1>>
  /\ fipe' = IdleFipe
  /\ UNCHANGED <<allVehicles, errors, merged, result, DRY_RUN, cw, fwr, files,
                 written, faults, rng, world, call, hybrid, manager, http, log>>

\* catch (e) { errors.push(`carros: ${e.message}`) }
MainFipeFailed ==
  /\ pc \in ApiTipos /\ fipe.pc = "thrown"
  /\ errors' = Append(errors, [source |-> pc, attempts |-> MAX_RETRIES])
  /\ pc' = AfterCategory(CategoryAt(pc))
  /\ fipe' = IdleFipe
  /\ UNCHANGED <<allVehicles, merged, result, exitCode, DRY_RUN, cw, fwr, files,
                 written, faults, rng, world, call, hybrid, manager, http, log>>

\* the state of the generator when a seed generator starts: any of RngSeeds
\* at the first call, the state the last call left after that
Seeds == IF rng < 0 THEN RngSeeds ELSE {rng}

\* allVehicles.push(...await fetchTPTVehicles())
MainTPT ==
  /\ pc = "tpt"
  /\ \E kind \in {"ok", "fail", "nocheerio", "row", "rowAno0", "rowBad"} :
       /\ MayAnswer(kind)
       /\ faults' = Answered(Node("tpt", 0, 0, 0), kind)
       /\ \E seed \in Seeds :
            LET tratores == fetchTPTVehicles(kind, seed)
            IN  /\ allVehicles' = allVehicles \o tratores.vehicles
                /\ rng' = (IF tratores.rng = seed THEN rng ELSE tratores.rng)
  /\ log' = Append(log, LogGet("tpt", "tpt", 0))
  /\ pc' = "bombarco"
  /\ UNCHANGED <<errors, merged, result, exitCode, DRY_RUN, fipe, cw, fwr, files,
                 written, world, call, hybrid, manager, http>>

\* allVehicles.push(...await fetchBombarcoVehicles())
MainBombarco ==
  /\ pc = "bombarco"
  /\ \E kind \in {"ok", "fail", "nocheerio", "atThreshold", "overThreshold",
                  "noPrice"} :
       /\ MayAnswer(kind)
       /\ faults' = Answered(Node("bombarco", 0, 0, 0), kind)
       /\ \E seed \in Seeds :
            LET barcos == fetchBombarcoVehicles(kind, seed)
            IN  /\ allVehicles' = allVehicles \o barcos.vehicles
                /\ rng' = (IF barcos.rng = seed THEN rng ELSE barcos.rng)
  /\ log' = Append(log, LogGet("bombarco", "bombarco", 0))
  /\ pc' = "validate"
  /\ UNCHANGED <<errors, merged, result, exitCode, DRY_RUN, fipe, cw, fwr, files,
                 written, world, call, hybrid, manager, http>>

\* if (allVehicles.length === 0) process.exit(1)
MainValidate ==
  /\ pc = "validate"
  /\ IF Len(allVehicles) = 0
       THEN pc' = "done" /\ exitCode' = <<1>>
       ELSE pc' = "merge" /\ exitCode' = exitCode
  /\ UNCHANGED <<allVehicles, errors, merged, result, DRY_RUN, fipe, cw, fwr,
                 files, written, faults, rng, world, call, hybrid, manager, http, log>>

(***************************************************************************)
(* main, step 4: const merged = mergeAndValidate(allVehicles).             *)
(***************************************************************************)
MainMerge ==
  /\ pc = "merge"
  /\ merged' = mergeAndValidate(allVehicles)
  /\ pc' = "compress"
  /\ UNCHANGED <<allVehicles, errors, result, exitCode, DRY_RUN, fipe, cw, fwr,
                 files, written, faults, rng, world, call, hybrid, manager, http, log>>

(***************************************************************************)
(* JSON text and gzip members.  A JSON array is the text of its elements   *)
(* between brackets, separated by commas; a gzip member carries a magic    *)
(* number, the deflated payload and the length of the original (ISIZE).    *)
(***************************************************************************)
Token(tok) == [tok |-> tok, value |-> <<>>]

ObjectToken(v) == [tok |-> "object", value |-> <<v>>]

\* JSON.stringify(array): the text of a JSON array
JSONElements(array) ==
  [n \in 1..(IF array = <<>> THEN 0 ELSE 2 * Len(array) - 1) |->
     IF n % 2 = 1 THEN ObjectToken(array[(n + 1) \div 2]) ELSE Token(",")]

\* a mutant of JSONstringifyArray: the last element is left out
JSONstringifyArrayDropLast(array) ==
  <<Token("[")>> \o JSONElements(SubSeq(array, 1, Len(array) - 1)) \o <<Token("]")>>

JSONstringifyArray(array) == <<Token("[")>> \o JSONElements(array) \o <<Token("]")>>

\* JSON.stringify(output): the document, its vehicles member as text
JSONstringify(output) ==
  [version      |-> output.version,
   generated_at |-> output.generated_at,
   vehicles     |-> JSONstringifyArray(output.vehicles),
   stats        |-> output.stats]

\* does the text read as a JSON array?
IsJSONArray(text) ==
  /\ Len(text) >= 2
  /\ text[1].tok = "[" /\ text[Len(text)].tok = "]"
  /\ \A n \in 2..(Len(text) - 1) :
       text[n].tok = (IF n % 2 = 0 THEN "object" ELSE ",")
  /\ (Len(text) = 2 \/ Len(text) % 2 = 1)

IsObjectToken(t) == t.tok = "object"

\* JSON.parse(text) of an array
JSONparseArray(text) ==
  LET objects == SelectSeq(text, IsObjectToken)
  IN  [n \in DOMAIN objects |-> objects[n].value[1]]

\* JSON.parse(text): [ok, value]; ok is FALSE where JSON.parse throws
JSONparse(text) ==
  IF IsJSONArray(text.vehicles)
    THEN [ok |-> TRUE,
          value |-> [version      |-> text.version,
                     generated_at |-> text.generated_at,
                     vehicles     |-> JSONparseArray(text.vehicles),
                     stats        |-> text.stats]]
    ELSE [ok |-> FALSE, value |-> <<>>]

\* the first two bytes of a gzip member
GZIP_MAGIC == "1f8b"

GZIP_LEVEL == 9

\* zlib.gzipSync(Buffer.from(jsonStr), { level: 9 })
gzipSync(jsonStr) ==
  [magic |-> GZIP_MAGIC, level |-> GZIP_LEVEL, payload |-> jsonStr,
   isize |-> Len(jsonStr.vehicles)]

\* zlib.gunzipSync(buffer): [ok, text]; ok is FALSE where it throws
gunzipSync(buffer) ==
  IF buffer.magic = GZIP_MAGIC /\ buffer.isize = Len(buffer.payload.vehicles)
    THEN [ok |-> TRUE, text |-> buffer.payload]
    ELSE [ok |-> FALSE, text |-> <<>>]

\* the characters of the model that take two bytes in UTF-8 (U+0080 to
\* U+07FF); every other character of the model is ASCII and takes one
TwoByteChars == {"U+00EB", "U+00CB", "U+00E3", "U+00C3", "U+0308", "U+0303"}

\* the bytes of the UTF-8 encoding of a text
Utf8Bytes(s) == Len(s) + Cardinality({ k \in DOMAIN s : s[k] \in TwoByteChars })

\* the text members of a record that carry its names; the keys, the quotes
\* and the numbers of an object are ASCII and the same for every record, and
\* the model leaves them out of both measures
RecordText(v) == v.id \o v.marca \o v.modelo

\* the size of a token of a JSON text, in bytes or in UTF-16 code units
TokenSize(t, bytes) ==
  IF t.tok = "object"
    THEN (IF bytes THEN Utf8Bytes(RecordText(t.value[1]))
          ELSE Len(RecordText(t.value[1])))
    ELSE 1

RECURSIVE TextSize(_, _, _, _)
TextSize(text, lo, hi, bytes) ==
  IF lo > hi THEN 0
  ELSE IF lo = hi THEN TokenSize(text[lo], bytes)
  ELSE LET mid == (lo + hi) \div 2
       IN  TextSize(text, lo, mid, bytes) + TextSize(text, mid + 1, hi, bytes)

\* jsonStr.length: the UTF-16 code units of the string
StringLength(text) == TextSize(text, 1, Len(text), FALSE)

\* Buffer.from(jsonStr).length, and the bytes writeFileSync writes for a
\* string: the UTF-8 encoding of the text
ByteLength(text) == TextSize(text, 1, Len(text), TRUE)

\* fs.statSync(path).size: the bytes of the file
FileSize(content) == ByteLength(content)

\* const version = `${yyyy}.${mm}.${dd}`, generated_at: now.toISOString()
Version == "2026.11.03"

GeneratedAt == "2026-11-03T00:00:00.000Z"

(***************************************************************************)
(* compressAndWrite(data), statement by statement.                         *)
(***************************************************************************)
\* if (DRY_RUN) return { jsonSize: 0, gzipSize: 0 }; else build the output
CwStart ==
  /\ pc = "compress" /\ cw.pc = "idle"
  /\ IF DRY_RUN
       THEN /\ result' = <<[jsonSize |-> 0, gzipSize |-> 0]>>
            /\ pc' = "summary"
            /\ cw' = cw
       ELSE /\ cw' = [cw EXCEPT !.pc = "writeJson",
                                !.output = <<[version      |-> Version,
                                              generated_at |-> GeneratedAt,
                                              vehicles     |-> merged.vehicles,
                                              stats        |-> merged.stats]>>]
            /\ UNCHANGED <<pc, result>>
  /\ UNCHANGED <<allVehicles, errors, merged, exitCode, DRY_RUN, fipe, fwr,
                 files, written, faults, rng, world, call, hybrid, manager, http, log>>

\* fs.writeFileSync(jsonPath, jsonStr, 'utf-8'); jsonSize = fs.statSync(jsonPath).size
CwWriteJson ==
  /\ cw.pc = "writeJson"
  /\ LET jsonStr == JSONstringify(cw.output[1])
     IN  /\ files' = [files EXCEPT !.json = <<jsonStr>>]
         /\ cw' = [cw EXCEPT !.pc = "writeGzip", !.jsonStr = <<jsonStr>>,
                             !.jsonSize = FileSize(jsonStr.vehicles)]
  /\ written' = Append(written, "vehicles_db.json")
  /\ UNCHANGED <<mainVars, fipe, fwr, faults, rng, world, call, hybrid, manager, http, log>>

\* fs.writeFileSync(gzipPath, gzipped); gzipSize = fs.statSync(gzipPath).size
CwWriteGzip ==
  /\ cw.pc = "writeGzip"
  /\ LET gzipped == gzipSync(cw.jsonStr[1])
     IN  /\ files' = [files EXCEPT !.gz = <<gzipped>>]
         /\ cw' = [cw EXCEPT !.pc = "verify",
                             !.gzipSize = FileSize(gzipped.payload.vehicles)]
  /\ written' = Append(written, "vehicles_db.json.gz")
  /\ UNCHANGED <<mainVars, fipe, fwr, faults, rng, world, call, hybrid, manager, http, log>>

\* what fs.readFileSync(gzipPath) returns: the bytes written, or, where the
\* file system is not faithful, an archive of fewer records or damaged bytes
ReadGzip(kind) ==
  LET stored == files.gz[1]
  IN  CASE kind = "stale" ->
             gzipSync([stored.payload EXCEPT
                         !.vehicles = JSONstringifyArray(
                                        Tail(JSONparseArray(stored.payload.vehicles)))])
        [] kind = "garbled" -> [stored EXCEPT !.magic = "0000"]
        [] OTHER -> stored

\* a mutant of CwVerify: the counts are not compared
CwVerifyUnchecked ==
  /\ cw.pc = "verify"
  /\ \E kind \in {"ok", "stale", "garbled"} :
       /\ MayAnswer(kind)
       /\ faults' = Answered(Node("fs", 0, 0, 0), kind)
       /\ LET decompressed == gunzipSync(ReadGzip(kind))
              verified     == JSONparse(decompressed.text)
          IN  cw' = [cw EXCEPT !.pc =
                       IF decompressed.ok /\ verified.ok
                         THEN "writeMetadata" ELSE "thrown"]
  /\ UNCHANGED <<mainVars, fipe, fwr, files, written, rng, world, call, hybrid, manager, http, log>>

\* verified = JSON.parse(zlib.gunzipSync(fs.readFileSync(gzipPath)).toString('utf-8'))
\* if (verified.vehicles.length !== data.vehicles.length) throw new Error(...)
CwVerify ==
  /\ cw.pc = "verify"
  /\ \E kind \in {"ok", "stale", "garbled"} :
       /\ MayAnswer(kind)
       /\ faults' = Answered(Node("fs", 0, 0, 0), kind)
       /\ LET decompressed == gunzipSync(ReadGzip(kind))
              verified     == JSONparse(decompressed.text)
          IN  cw' = [cw EXCEPT !.pc =
                       IF /\ decompressed.ok
                          /\ verified.ok
                          /\ Len(verified.value.vehicles) = Len(merged.vehicles)
                         THEN "writeMetadata" ELSE "thrown"]
  /\ UNCHANGED <<mainVars, fipe, fwr, files, written, rng, world, call, hybrid, manager, http, log>>

\* fs.writeFileSync(path.join(OUTPUT_DIR, 'metadata.json'), ...); return
CwWriteMetadata ==
  /\ cw.pc = "writeMetadata"
  /\ LET metadata == [version         |-> Version,
                      generated_at    |-> GeneratedAt,
                      vehicles_count  |-> Len(merged.vehicles),
                      json_size_bytes |-> cw.jsonSize,
                      gzip_size_bytes |-> cw.gzipSize,
                      stats           |-> merged.stats]
     IN  /\ files' = [files EXCEPT !.metadata = <<metadata>>]
         /\ result' = <<[jsonSize |-> cw.jsonSize, gzipSize |-> cw.gzipSize,
                       version |-> Version, metadata |-> metadata]>>
  /\ written' = Append(written, "metadata.json")
  /\ cw' = [cw EXCEPT !.pc = "returned"]
  /\ pc' = "summary"
  /\ UNCHANGED <<allVehicles, errors, merged, exitCode, DRY_RUN, fipe, fwr,
                 faults, rng, world, call, hybrid, manager, http, log>>

\* a mutant of MainFatal: the rejection of main() is swallowed
MainFatalExitZero ==
  /\ pc = "compress" /\ cw.pc = "thrown"
  /\ pc' = "done"
  /\ exitCode' = <<0>>
  /\ UNCHANGED <<allVehicles, errors, merged, result, DRY_RUN, fipe, cw, fwr,
                 files, written, faults, rng, world, call, hybrid, manager, http, log>>

\* main().catch(err => process.exit(1)): compressAndWrite threw
MainFatal ==
  /\ pc = "compress" /\ cw.pc = "thrown"
  /\ pc' = "done"
  /\ exitCode' = <<1>>
  /\ UNCHANGED <<allVehicles, errors, merged, result, DRY_RUN, fipe, cw, fwr,
                 files, written, faults, rng, world, call, hybrid, manager, http, log>>

\* the summary, and if (process.env.GITHUB_OUTPUT) the four appendFileSync
\* calls; main returns and the process exits with 0
MainSummary ==
  /\ pc = "summary"
  /\ \E isSet \in BOOLEAN :
       IF isSet
         THEN /\ files' =
                   [files EXCEPT !.githubOutput =
                      @ \o << [version        |-> IF "version" \in DOMAIN result[1]
                                                    THEN result[1].version
                                                    ELSE "unknown",
                                vehicles_count |-> Len(merged.vehicles),
                                gzip_size      |-> result[1].gzipSize,
                                has_errors     |-> Len(errors) > 0] >>]
              /\ written' = Append(written, "GITHUB_OUTPUT")
         ELSE UNCHANGED <<files, written>>
  /\ pc' = "done"
  /\ exitCode' = <<0>>
  /\ UNCHANGED <<allVehicles, errors, merged, result, DRY_RUN, fipe, cw, fwr,
                 faults, rng, world, call, hybrid, manager, http, log>>

CwStep == CwStart \/ CwWriteJson \/ CwWriteGzip \/ CwVerify \/ CwWriteMetadata

(***************************************************************************)
(* mergeAndValidate on every list of up to MaxLen records.  The records    *)
(* are those a collector can push: the id is generateId of the other       *)
(* fields, "Up!" and "Up" normalize to one id, and at most one field of a  *)
(* record fails the validation.                                            *)
(***************************************************************************)
InputRecord(marca, modelo, ano, preco) ==
  [id |-> generateId("carro", marca, modelo, ano), tipo |-> "carro",
   marca |-> marca, modelo |-> modelo, ano |-> ano, preco |-> preco]

\* how many of the four validated fields are empty, zero or not positive
EmptyFields(marca, modelo, ano, preco) ==
  (IF marca = <<>> THEN 1 ELSE 0) + (IF modelo = <<>> THEN 1 ELSE 0)
    + (IF ano = 0 THEN 1 ELSE 0) + (IF preco <= 0 THEN 1 ELSE 0)

InputRecords ==
  { InputRecord(f[1], f[2], f[3], f[4]) :
      f \in { g \in {<<"V","W">>, <<>>} \X {<<"U","p","!">>, <<"U","p">>, <<>>}
                      \X {2020, 2021, 0} \X {0, 10000, 20000} :
                EmptyFields(g[1], g[2], g[3], g[4]) <= 1 } }

InputLists == UNION { [1..n -> InputRecords] : n \in 0..MaxLen }

InitMerge ==
  /\ pc = "merge"
  /\ allVehicles \in InputLists
  /\ errors = <<>> /\ merged = NoMerged /\ result = <<>>
  /\ exitCode = <<>> /\ DRY_RUN = FALSE
  /\ fipe = IdleFipe /\ cw = IdleCw /\ fwr = IdleFwr
  /\ files = NoFiles /\ written = <<>> /\ faults = {} /\ log = <<>>
  /\ world = NoWorld
  /\ OthersIdle
  /\ rng = 0

NextMerge == MainMerge

SpecMerge == InitMerge /\ [][NextMerge]_vars

(***************************************************************************)
(* mergeAndValidate on lists of records of several types: two models that  *)
(* normalize to one id, with and without a price.                          *)
(***************************************************************************)
TypedRecords ==
  { [id |-> generateId(tipo, <<"V","W">>, modelo, 2020), tipo |-> tipo,
     marca |-> <<"V","W">>, modelo |-> modelo, ano |-> 2020, preco |-> preco] :
      tipo \in {"carro", "moto", "trator"},
      modelo \in {<<"U","p","!">>, <<"U","p">>, <<"G","o","l">>},
      preco \in {0, 10000} }

TypedLists == UNION { [1..n -> TypedRecords] : n \in 0..MaxLen }

InitStats ==
  /\ pc = "merge"
  /\ allVehicles \in TypedLists
  /\ errors = <<>> /\ merged = NoMerged /\ result = <<>>
  /\ exitCode = <<>> /\ DRY_RUN = FALSE
  /\ fipe = IdleFipe /\ cw = IdleCw /\ fwr = IdleFwr
  /\ files = NoFiles /\ written = <<>> /\ faults = {} /\ log = <<>>
  /\ world = NoWorld
  /\ OthersIdle
  /\ rng = 0

NextStats == MainMerge

SpecStats == InitStats /\ [][NextStats]_vars

(***************************************************************************)
(* compressAndWrite and the end of main, on merged datasets of one record   *)
(* and more, with and without --dry-run.                                   *)
(***************************************************************************)
\* the datasets of the short lists that are not empty, and the seed data of
\* the tractor and boat collectors together
MergedDatasets ==
  { d \in { mergeAndValidate(list) : list \in InputLists } : d.vehicles # <<>> }
    \cup { mergeAndValidate(TPTSeedData[seed].vehicles
                              \o BombarcoSeedData[TPTSeedData[seed].rng].vehicles) :
             seed \in RngSeeds }

InitWrite ==
  /\ pc = "compress"
  /\ merged \in MergedDatasets
  /\ DRY_RUN \in BOOLEAN
  /\ allVehicles = merged.vehicles
  /\ errors = <<>> /\ result = <<>> /\ exitCode = <<>>
  /\ fipe = IdleFipe /\ cw = IdleCw /\ fwr = IdleFwr
  /\ files = NoFiles /\ written = <<>> /\ faults = {} /\ log = <<>>
  /\ world = NoWorld
  /\ OthersIdle
  /\ rng = 0

NextWrite == CwStep \/ MainFatal \/ MainSummary

SpecWrite == InitWrite /\ [][NextWrite]_vars

(***************************************************************************)
(* The whole run of the full scraper.                                      *)
(***************************************************************************)
Init ==
  /\ pc = Categories[1].apiTipo
  /\ allVehicles = <<>> /\ errors = <<>> /\ merged = NoMerged /\ result = <<>>
  /\ exitCode = <<>>
  /\ DRY_RUN \in BOOLEAN
  /\ fipe = IdleFipe /\ cw = IdleCw /\ fwr = IdleFwr
  /\ files = NoFiles /\ written = <<>> /\ faults = {} /\ log = <<>>
  /\ world = [brands |-> MainBrands, models |-> 1, years |-> 1]
  /\ OthersIdle
  /\ rng = -1

Next ==
  \/ MainCallFipe \/ FipeStep \/ MainFipeReturned \/ MainFipeFailed
  \/ MainTPT \/ MainBombarco \/ MainValidate \/ MainMerge
  \/ CwStep \/ MainFatal \/ MainSummary

Spec == Init /\ [][Next]_vars

(***************************************************************************)
(* Functions taken on their own.  A specification of this kind starts with *)
(* a call on arguments drawn from a bounded set and has one step, the      *)
(* call's return; the full scraper's run does not move.                    *)
(***************************************************************************)
fullVars ==
  <<pc, allVehicles, errors, merged, result, exitCode, DRY_RUN, fipe, cw, fwr,
    files, written, faults, rng, world, log>>

FullScraperIdle ==
  /\ pc = "none"
  /\ allVehicles = <<>> /\ errors = <<>> /\ merged = NoMerged /\ result = <<>>
  /\ exitCode = <<>> /\ DRY_RUN = FALSE
  /\ fipe = IdleFipe /\ cw = IdleCw /\ fwr = IdleFwr
  /\ files = NoFiles /\ written = <<>> /\ faults = {} /\ log = <<>>
  /\ world = NoWorld /\ rng = -1

\* the characters of the brand and model names generateId is called on here:
\* a letter of each case, a digit, a hyphen, a blank and an accented capital
IdAlphabet == {"a", "B", "7", "-", " ", "U+00CB"}

IdLen == 2

RECURSIVE TextsUpTo(_, _)
TextsUpTo(alphabet, n) ==
  IF n = 0 THEN {<<>>}
  ELSE LET shorter == TextsUpTo(alphabet, n - 1)
       IN  shorter \cup { Append(t, c) : t \in shorter, c \in alphabet }

IdTexts == TextsUpTo(IdAlphabet, IdLen)

InitId ==
  /\ FullScraperIdle
  /\ hybrid = NoHybrid /\ manager = NoManager /\ http = NoHttp
  /\ \E tipo \in {"carro", "barco"}, marca \in IdTexts, modelo \in IdTexts,
        ano \in {2011, 32000} :
       call = [fn |-> "generateId", pc |-> "called", tipo |-> tipo,
               marca |-> marca, modelo |-> modelo, ano |-> ano, out |-> <<>>]

\* return `${clean(tipo)}-${clean(marca)}-${clean(modelo)}-${ano}`
GenerateIdReturn ==
  /\ call.fn = "generateId" /\ call.pc = "called"
  /\ call' = [call EXCEPT !.pc = "returned",
                          !.out = generateId(call.tipo, call.marca, call.modelo,
                                             call.ano)]
  /\ UNCHANGED <<fullVars, hybrid, manager, http>>

NextId == GenerateIdReturn

SpecId == InitId /\ [][NextId]_vars


(***************************************************************************)
(* The hybrid scraper (Smart Scraper V2).  generatePrice works on doubles; *)
(* here the running product is carried in hundredths of a real and rounded *)
(* to the nearest hundredth after each factor, the result is in whole      *)
(* reais as Math.round returns it.                                         *)
(***************************************************************************)
\* String.prototype.charCodeAt(0) of the characters the catalog names use
charCodeAt(c) ==
  IF c \in LowerSet THEN 96 + (CHOOSE k \in DOMAIN LowerChars : LowerChars[k] = c)
  ELSE IF c \in UpperSet THEN 64 + (CHOOSE k \in DOMAIN UpperChars : UpperChars[k] = c)
  ELSE IF c \in DigitSet THEN 48 + DigitValue(c)
  ELSE CASE c = " " -> 32 [] c = "!" -> 33 [] c = "(" -> 40 [] c = ")" -> 41 [] c = "-" -> 45
         [] c = "." -> 46

\* String.prototype.includes
includes(s, part) ==
  \E k \in 1..(Len(s) - Len(part) + 1) : SubSeq(s, k, k + Len(part) - 1) = part

LUXURY ==
  { <<"B","M","W">>,
    <<"A","u","d","i">>,
    <<"M","e","r","c","e","d","e","s","-","B","e","n","z">>,
    <<"V","o","l","v","o">>,
    <<"L","a","n","d"," ","R","o","v","e","r">>,
    <<"P","o","r","s","c","h","e">>,
    <<"F","e","r","r","a","r","i">>,
    <<"L","a","m","b","o","r","g","h","i","n","i">>,
    <<"J","a","g","u","a","r">>,
    <<"L","e","x","u","s">> }

\* basePrice * Math.pow(0.92, age) for age > 0, in hundredths
RECURSIVE Depreciated(_, _)
Depreciated(hundredths, age) ==
  IF age <= 0 THEN hundredths
  ELSE LET before == Depreciated(hundredths, age - 1)
       IN  before - RoundDiv(2 * before, 25)

\* let basePrice = 0, and the five `if (tipo === ...) basePrice = ...`
basePrice(tipo) ==
  CASE tipo = "carros" -> 90000
    [] tipo = "motos" -> 25000
    [] tipo = "caminhoes" -> 500000
    [] tipo = "tratores" -> 350000
    [] tipo = "barcos" -> 150000
    [] OTHER -> 0

generatePrice(tipo, marca, modelo, ano) ==
  LET age      == CurrentYear - ano
      typeBase == basePrice(tipo)
      name     == marca \o modelo
      RECURSIVE Sum(_)
      Sum(k)   == IF k = 0 THEN 0 ELSE Sum(k - 1) + charCodeAt(name[k])
      hash     == Sum(Len(name))
      hashed   == (typeBase + hash * 100) * 100
      aged     == IF age > 0 THEN Depreciated(hashed, age) ELSE hashed
      luxury   == IF \E l \in LUXURY : includes(marca, l)
                    THEN RoundDiv(aged * 5, 2) ELSE aged
      truck    == IF tipo = "caminhoes"
                     /\ (includes(modelo, <<"F","H">>) \/ includes(modelo, <<"R"," ","4","5","0">>))
                    THEN RoundDiv(luxury * 3, 2) ELSE luxury
      bike     == IF tipo = "motos"
                     /\ (\/ includes(modelo, <<"C","B"," ","1","0","0","0">>)
                         \/ includes(modelo, <<"R","1">>)
                         \/ includes(modelo, <<"S"," ","1","0","0","0">>))
                    THEN RoundDiv(truck * 9, 5) ELSE truck
  IN  RoundDiv(bike, 100)

\* for (let ano = 2010; ano <= currentYear + 1; ano++)
HYBRID_FIRST_YEAR == 2010

HybridYears == HYBRID_FIRST_YEAR..(CurrentYear + 1)

PriceTipos == {"carros", "motos", "caminhoes", "tratores", "barcos"}

PriceMarcas == { <<"B","M","W">>, <<"V","o","l","v","o">>, <<"J","o","h","n"," ","D","e","e","r","e">>, <<"A","g","r","a","l","e">> }

PriceModelos == { <<"F","H"," ","5","4","0">>, <<"S"," ","1","0","0","0"," ","R","R">>, <<"5","0","7","5","E">>, <<"4","2","3","0">> }

InitPrice ==
  /\ FullScraperIdle
  /\ hybrid = NoHybrid /\ manager = NoManager /\ http = NoHttp
  /\ \E tipo \in PriceTipos, marca \in PriceMarcas, modelo \in PriceModelos,
        ano \in HybridYears :
       call = [fn |-> "generatePrice", pc |-> "called", tipo |-> tipo,
               marca |-> marca, modelo |-> modelo, ano |-> ano, out |-> 0]

\* return Math.round(basePrice)
GeneratePriceReturn ==
  /\ call.fn = "generatePrice" /\ call.pc = "called"
  /\ call' = [call EXCEPT !.pc = "returned",
                          !.out = generatePrice(call.tipo, call.marca, call.modelo,
                                                call.ano)]
  /\ UNCHANGED <<fullVars, hybrid, manager, http>>

NextPrice == GeneratePriceReturn

SpecPrice == InitPrice /\ [][NextPrice]_vars


(***************************************************************************)
(* The seed-first manager (scripts/fipe-scraper.cjs).  Prices are in whole *)
(* reais, the product with the depreciation is carried as in generatePrice.*)
(***************************************************************************)
\* SEED_DATA: some of its entries, in the order of the dictionary
SEED_DATA ==
  << [tipo |-> "carros", marca |-> <<"F","i","a","t">>, modelos |-> <<<<"M","o","b","i">>, <<"U","n","o">>>>],
     [tipo |-> "carros", marca |-> <<"T","o","y","o","t","a">>, modelos |-> <<<<"H","i","l","u","x">>>>],
     [tipo |-> "carros", marca |-> <<"C","i","t","r","o","U+00EB","n">>, modelos |-> <<<<"C","3">>>>],
     [tipo |-> "carros", marca |-> <<"B","M","W">>, modelos |-> <<<<"X","1">>>>],
     [tipo |-> "motos", marca |-> <<"H","o","n","d","a">>, modelos |-> <<<<"P","o","p"," ","1","1","0","i">>>>],
     [tipo |-> "caminhoes", marca |-> <<"V","o","l","v","o">>, modelos |-> <<<<"F","H"," ","5","4","0">>>>],
     [tipo |-> "tratores", marca |-> <<"V","a","l","t","r","a">>, modelos |-> <<<<"A","8","4">>>>],
     [tipo |-> "barcos", marca |-> <<"R","e","a","l">>, modelos |-> <<<<"2","4">>>>] >>

\* the base price estimation of generateSeedData, by the type of the entry
seedBasePrice(tipo) ==
  CASE tipo = "carros" -> 80000
    [] tipo = "motos" -> 15000
    [] tipo = "caminhoes" -> 400000
    [] tipo = "tratores" -> 250000
    [] tipo = "barcos" -> 100000
    [] OTHER -> 0

\* generateSeedData(), the catalog made a parameter
generateSeedData(catalog) ==
  LET price(tipo, marca, modelo, ano) ==
        LET age       == CurrentYear - ano
            typeBase  == seedBasePrice(tipo)
            hashed    == (typeBase + Len(modelo) * 1000) * 100
            luxury    == IF marca \in {<<"B","M","W">>, <<"A","u","d","i">>, <<"M","e","r","c","e","d","e","s","-","B","e","n","z">>,
                                         <<"V","o","l","v","o">>, <<"L","a","n","d"," ","R","o","v","e","r">>,
                                         <<"P","o","r","s","c","h","e">>}
                           THEN RoundDiv(hashed * 5, 2) ELSE hashed
            pickup    == IF modelo \in {<<"H","i","l","u","x">>, <<"S","1","0">>, <<"R","a","n","g","e","r">>, <<"A","m","a","r","o","k">>}
                           THEN RoundDiv(luxury * 9, 5) ELSE luxury
        IN  RoundDiv(IF age > 0 THEN Depreciated(pickup, age) ELSE pickup, 100)
      dbTipo(tipo) ==
        CASE tipo = "carros" -> "carro" [] tipo = "motos" -> "moto"
          [] tipo = "caminhoes" -> "caminhao" [] tipo = "tratores" -> "trator"
          [] tipo = "barcos" -> "barco"
      record(fab, modelo, ano) ==
        IF price(fab.tipo, fab.marca, modelo, ano) > 0
          THEN << [id        |-> generateId(dbTipo(fab.tipo), fab.marca, modelo, ano),
                   tipo      |-> dbTipo(fab.tipo),
                   marca     |-> fab.marca,
                   modelo    |-> modelo,
                   ano       |-> ano,
                   preco     |-> price(fab.tipo, fab.marca, modelo, ano),
                   fipe_code |-> "SEED-001"] >>
          ELSE <<>>
  IN  Flatten([f \in DOMAIN catalog |->
        Flatten([m \in DOMAIN catalog[f].modelos |->
          Flatten([k \in 1..(CurrentYear + 2 - HYBRID_FIRST_YEAR) |->
            record(catalog[f], catalog[f].modelos[m], HYBRID_FIRST_YEAR + k - 1)])])])

\* the catalogs the generator is run on: up to CatalogLen entries of SEED_DATA,
\* in the dictionary's order
CatalogLen == 3

SeedCatalogs ==
  LET picks == { p \in SUBSET DOMAIN SEED_DATA : Cardinality(p) \in 1..CatalogLen }
      RECURSIVE Take(_, _)
      Take(p, from) ==
        IF from > Len(SEED_DATA) THEN <<>>
        ELSE (IF from \in p THEN <<SEED_DATA[from]>> ELSE <<>>) \o Take(p, from + 1)
  IN  { Take(p, 1) : p \in picks }

SeedGenerators == {"generateSeedData", "generateTPTSeedData", "generateBombarcoSeedData"}

InitSeed ==
  /\ FullScraperIdle
  /\ hybrid = NoHybrid /\ manager = NoManager /\ http = NoHttp
  /\ \/ \E catalog \in SeedCatalogs :
          call = [fn |-> "generateSeedData", catalog |-> catalog, runs |-> <<>>]
     \/ \E fn \in SeedGenerators \ {"generateSeedData"} :
          call = [fn |-> fn, catalog |-> <<>>, runs |-> <<>>]

\* one run of a seed generator; Math.random starts anywhere in each run
SeedRun ==
  /\ call.fn \in SeedGenerators /\ Len(call.runs) < 2
  /\ \E state \in RngSeeds :
       call' = [call EXCEPT !.runs =
                  Append(@, CASE call.fn = "generateSeedData" ->
                                   generateSeedData(call.catalog)
                              [] call.fn = "generateTPTSeedData" ->
                                   TPTSeedData[state].vehicles
                              [] call.fn = "generateBombarcoSeedData" ->
                                   BombarcoSeedData[state].vehicles)]
  /\ UNCHANGED <<fullVars, hybrid, manager, http>>

NextSeed == SeedRun

SpecSeed == InitSeed /\ [][NextSeed]_vars


\* how many times in a row the manager is run
MaxRuns == 2

\* the database file a run of the manager can find: none, or the dataset an
\* earlier run wrote for some catalog a year before (no record of the year
\* after the current one), or a JSON object without vehicles
ExistingDatabases ==
  {<<>>}
    \cup { << [version  |-> "2025.11.03",
               vehicles |-> SelectSeq(generateSeedData(catalog),
                                      LAMBDA v : v.ano <= CurrentYear)] >> :
            catalog \in SeedCatalogs }
    \cup { << [version |-> "2025.11.03"] >> }

InitManager ==
  /\ FullScraperIdle
  /\ call = NoCall /\ hybrid = NoHybrid /\ http = NoHttp
  /\ \E forceReset \in BOOLEAN, db \in ExistingDatabases :
       manager = [pc |-> "start", forceReset |-> forceReset, existing |-> db,
                  vehicles |-> <<>>, log |-> <<>>, files |-> NoFiles,
                  run |-> 1, persisted |-> <<>>]

\* the load branch of main that forgets the first record of the file
ManagerLoadOrSeedTruncating ==
  /\ manager.pc = "start"
  /\ manager' = [manager EXCEPT
       !.pc = "write",
       !.vehicles =
          IF manager.existing # <<>> /\ ~manager.forceReset
            THEN (IF "vehicles" \in DOMAIN manager.existing[1]
                       /\ manager.existing[1].vehicles # <<>>
                    THEN Tail(manager.existing[1].vehicles) ELSE <<>>)
            ELSE generateSeedData(SEED_DATA)]
  /\ UNCHANGED <<fullVars, call, hybrid, http>>

\* if (fs.existsSync(DB_PATH) && !forceReset) { load; the incremental update
\* is a console.log, fetchPriceFromAPI is never called } else generateSeedData()
ManagerLoadOrSeed ==
  /\ manager.pc = "start"
  /\ manager' = [manager EXCEPT
       !.pc = "write",
       !.vehicles =
          IF manager.existing # <<>> /\ ~manager.forceReset
            THEN (IF "vehicles" \in DOMAIN manager.existing[1]
                    THEN manager.existing[1].vehicles ELSE <<>>)
            ELSE generateSeedData(SEED_DATA)]
  /\ UNCHANGED <<fullVars, call, hybrid, http>>

\* the stats, the three files and, if GITHUB_OUTPUT is set, its four lines
ManagerWrite ==
  /\ manager.pc = "write"
  /\ \E isSet \in BOOLEAN :
       LET stats    == StatsOf(manager.vehicles)
           output   == [version |-> Version, generated_at |-> GeneratedAt,
                        vehicles |-> manager.vehicles, stats |-> stats]
           jsonStr  == JSONstringify(output)
           gzipped  == gzipSync(jsonStr)
           metadata == [version         |-> Version,
                        generated_at    |-> GeneratedAt,
                        vehicles_count  |-> Len(manager.vehicles),
                        json_size_bytes |-> StringLength(jsonStr.vehicles),
                        gzip_size_bytes |-> ByteLength(gzipped.payload.vehicles),
                        stats           |-> stats]
       IN  manager' = [manager EXCEPT
             !.pc = "done",
             !.persisted = Append(@, [reset    |-> manager.forceReset,
                                      vehicles |-> JSONparse(jsonStr).value.vehicles]),
             !.files = [json |-> <<jsonStr>>, gz |-> <<gzipped>>,
                        metadata |-> <<metadata>>,
                        githubOutput |->
                          IF isSet
                            THEN << [version        |-> Version,
                                     vehicles_count |-> Len(manager.vehicles),
                                     gzip_size      |-> ByteLength(gzipped.payload.vehicles),
                                     stats          |-> stats] >>
                            ELSE <<>>]]
  /\ UNCHANGED <<fullVars, call, hybrid, http>>

\* the script is started again (the weekly job, or by hand), with or without
\* --reset: fs.existsSync(DB_PATH) is now true and readFileSync / JSON.parse
\* give what the run before wrote
ManagerRerun ==
  /\ manager.pc = "done"
  /\ manager.run < MaxRuns
  /\ \E forceReset \in BOOLEAN :
       manager' = [manager EXCEPT
         !.pc = "start",
         !.forceReset = forceReset,
         !.existing = << JSONparse(manager.files.json[1]).value >>,
         !.vehicles = <<>>,
         !.run = @ + 1]
  /\ UNCHANGED <<fullVars, call, hybrid, http>>

NextManager == ManagerLoadOrSeed \/ ManagerWrite \/ ManagerRerun

SpecManager == InitManager /\ [][NextManager]_vars


(***************************************************************************)
(* httpGet under fetchWithRetry, request by request.  http.reqs holds, for *)
(* each attempt made so far, the state of its ClientRequest and of the     *)
(* timer httpGet set for it, and the promise that httpGet call returned.   *)
(* A redirect adds a request of the same attempt, one hop further.  The    *)
(* socket's idle timeout has the same duration as the timer and is armed   *)
(* after it, so it comes only after the timer has fired.                   *)
(***************************************************************************)
TIMEOUT == 30000

\* the most 3xx answers with a Location header one fetchWithRetry call gets
MaxRedirects == 1

Redirects(h) == Cardinality({ a \in DOMAIN h.reqs : h.reqs[a].hop > 0 })

\* the request whose 3xx answer made httpGet issue request a
Parent(h, a) ==
  CHOOSE p \in DOMAIN h.reqs :
    h.reqs[p].attempt = h.reqs[a].attempt /\ h.reqs[p].hop = h.reqs[a].hop - 1

\* a mutant of Settle: the callbacks settle the promise fetchWithRetry is
\* waiting for, whichever request they belong to
RECURSIVE SettleShared(_, _, _, _)
SettleShared(h, a, state, value) ==
  LET cur == CHOOSE c \in DOMAIN h.reqs :
               h.reqs[c].attempt = h.i /\ h.reqs[c].hop = 0
  IN  [h EXCEPT !.reqs[cur].promise = state, !.reqs[cur].value = value]

\* resolve or reject called by a callback of request a: the promise of a's
\* httpGet call settles if it is pending, and with it, through
\* .then(resolve).catch(reject), the promise of the call that followed a
\* redirect to a; a settled promise stays as it is
RECURSIVE Settle(_, _, _, _)
Settle(h, a, state, value) ==
  IF h.reqs[a].promise # "pending" THEN h
  ELSE LET settled == [h EXCEPT !.reqs[a].promise = state, !.reqs[a].value = value]
       IN  IF h.reqs[a].hop = 0 THEN settled
           ELSE Settle(settled, Parent(h, a), state, value)

NewRequest(attempt, hop) ==
  [attempt |-> attempt, hop |-> hop, req |-> "inflight", timer |-> "armed",
   ms |-> TIMEOUT, promise |-> "pending", value |-> "", gen |-> 0]

ClearTimeout(timer) == IF timer = "armed" THEN "cleared" ELSE timer

\* the index of the httpGet call fetchWithRetry is awaiting
Awaited(h) ==
  CHOOSE c \in DOMAIN h.reqs : h.reqs[c].attempt = h.i /\ h.reqs[c].hop = 0

\* the body of the loop up to the await: httpGet sets the timer and sends
HttpGet ==
  /\ http.pc = "attempt"
  /\ http' = [http EXCEPT !.pc = "await",
                          !.reqs = Append(@, NewRequest(http.i, 0))]
  /\ UNCHANGED <<fullVars, call, hybrid, manager>>

\* a mutant of HttpRedirect: following a redirect uses up one of the retries
HttpRedirectCounted ==
  /\ \E a \in DOMAIN http.reqs :
       /\ http.reqs[a].req = "inflight" /\ Redirects(http) < MaxRedirects
       /\ http' = [http EXCEPT
                     !.retries = @ - 1,
                     !.reqs = Append([@ EXCEPT ![a].req = "redirected",
                                               ![a].timer = ClearTimeout(@)],
                                     NewRequest(http.reqs[a].attempt,
                                                http.reqs[a].hop + 1))]
  /\ UNCHANGED <<fullVars, call, hybrid, manager>>

\* the response callback on a 3xx status with a Location header:
\* clearTimeout(timer) and httpGet(location).then(resolve).catch(reject)
HttpRedirect ==
  /\ \E a \in DOMAIN http.reqs :
       /\ http.reqs[a].req = "inflight" /\ Redirects(http) < MaxRedirects
       /\ http' = [http EXCEPT
                     !.reqs = Append([@ EXCEPT ![a].req = "redirected",
                                               ![a].timer = ClearTimeout(@)],
                                     NewRequest(http.reqs[a].attempt,
                                                http.reqs[a].hop + 1))]
  /\ UNCHANGED <<fullVars, call, hybrid, manager>>

\* res.on('end'): clearTimeout, then resolve on 2xx and reject otherwise (a
\* 3xx status without a Location header comes here too)
HttpEnd ==
  /\ \E a \in DOMAIN http.reqs, status \in {200, 301, 500}, body \in {"json", "html"} :
       /\ http.reqs[a].req = "inflight"
       /\ status # 200 => body = "html"
       /\ http' = Settle([http EXCEPT !.reqs[a].req = "ended",
                                      !.reqs[a].timer = ClearTimeout(@)],
                         a, IF status = 200 THEN "resolved" ELSE "rejected",
                         CASE status = 200 -> body
                           [] status = 301 -> "HTTP 301"
                           [] status = 500 -> "HTTP 500")
  /\ UNCHANGED <<fullVars, call, hybrid, manager>>

\* req.on('error'): clearTimeout and reject
HttpError ==
  /\ \E a \in DOMAIN http.reqs :
       /\ http.reqs[a].req = "inflight"
       /\ http' = Settle([http EXCEPT !.reqs[a].req = "errored",
                                      !.reqs[a].timer = ClearTimeout(@)],
                         a, "rejected", "ECONNRESET")
  /\ UNCHANGED <<fullVars, call, hybrid, manager>>

\* setTimeout(() => reject(new Error(`Timeout: ${url}`)), TIMEOUT) fires
HttpTimer ==
  /\ \E a \in DOMAIN http.reqs :
       /\ http.reqs[a].timer = "armed"
       /\ http' = Settle([http EXCEPT !.reqs[a].timer = "fired"],
                         a, "rejected", "Timeout")
  /\ UNCHANGED <<fullVars, call, hybrid, manager>>

\* req.on('timeout'), the socket was idle for TIMEOUT: req.destroy(), reject
HttpSocketTimeout ==
  /\ \E a \in DOMAIN http.reqs :
       /\ http.reqs[a].req = "inflight" /\ http.reqs[a].timer = "fired"
       /\ http' = Settle([http EXCEPT !.reqs[a].req = "destroyed"],
                         a, "rejected", "Timeout")
  /\ UNCHANGED <<fullVars, call, hybrid, manager>>

\* fetchWithRetry resumes: JSON.parse(data) and return, or the catch block
\* (JSON.parse throws inside the try as a rejected httpGet does)
HttpRetryResume ==
  /\ http.pc = "await" /\ http.reqs[Awaited(http)].promise # "pending"
  /\ LET settled == http.reqs[Awaited(http)]
         outcome == IF settled.promise = "resolved"
                      THEN (IF settled.value = "json" THEN "ok" ELSE "parse")
                      ELSE settled.value
         seen    == [http EXCEPT !.outcomes = Append(@, outcome)]
     IN  http' =
           IF outcome = "ok"
             THEN [seen EXCEPT !.pc = "returned"]
             ELSE IF http.i < http.retries - 1
               THEN [seen EXCEPT !.pc = "sleep"]
               ELSE [seen EXCEPT !.pc = "thrown", !.i = @ + 1]
  /\ UNCHANGED <<fullVars, call, hybrid, manager>>

\* the sleep is over: i++ and the next turn of the loop
HttpRetryWake ==
  /\ http.pc = "sleep"
  /\ http' = [http EXCEPT !.pc = "attempt", !.i = @ + 1]
  /\ UNCHANGED <<fullVars, call, hybrid, manager>>

InitHttp ==
  /\ FullScraperIdle
  /\ call = NoCall /\ hybrid = NoHybrid /\ manager = NoManager
  /\ \E u \in Urls :
       http = [pc |-> "attempt", url |-> u, retries |-> MAX_RETRIES, i |-> 0,
               reqs |-> <<>>, outcomes |-> <<>>]

NextHttp ==
  \/ HttpGet \/ HttpRedirect \/ HttpEnd \/ HttpError \/ HttpTimer
  \/ HttpSocketTimeout \/ HttpRetryResume \/ HttpRetryWake

SpecHttp == InitHttp /\ [][NextHttp]_vars

(***************************************************************************)
(* The same call under the scheduling of the event loop, for termination.  *)
(* httpGet follows redirects without counting them; beyond MaxRedirects    *)
(* the model keeps the last request of a chain only: a request that is     *)
(* answered with a redirect before its timer fires gives way, in its       *)
(* place, to the request for the new location, with a timer of its own     *)
(* (gen tells the two timers apart).                                       *)
(***************************************************************************)
\* the response callback on a 3xx status with a Location header, on a
\* request that was itself the result of a redirect
HttpRedirectLoop ==
  /\ \E a \in DOMAIN http.reqs :
       /\ http.reqs[a].req = "inflight" /\ http.reqs[a].timer = "armed"
       /\ http.reqs[a].promise = "pending"
       /\ http.reqs[a].hop > 0 /\ Redirects(http) = MaxRedirects
       /\ http' = [http EXCEPT !.reqs[a].gen = 1 - @]
  /\ UNCHANGED <<fullVars, call, hybrid, manager>>

\* the timer of generation g of the a-th request fires
HttpTimerOf(a, g) ==
  /\ a \in DOMAIN http.reqs
  /\ http.reqs[a].gen = g /\ http.reqs[a].timer = "armed"
  /\ http' = Settle([http EXCEPT !.reqs[a].timer = "fired"], a, "rejected", "Timeout")
  /\ UNCHANGED <<fullVars, call, hybrid, manager>>

NextHttpLive ==
  \/ HttpGet \/ HttpRedirect \/ HttpRedirectLoop \/ HttpEnd \/ HttpError
  \/ HttpTimer \/ HttpSocketTimeout \/ HttpRetryResume \/ HttpRetryWake

\* what the event loop guarantees: the function goes on when it can (the
\* request is issued, the await resumes once the promise is settled, the
\* sleep ends), and a timer that stays armed fires.  The server owes
\* nothing: no answer, error or redirect is ever bound to come.
HttpFairness ==
  /\ WF_vars(HttpGet) /\ WF_vars(HttpRetryResume) /\ WF_vars(HttpRetryWake)
  /\ \A a \in 1..(MAX_RETRIES + MaxRedirects), g \in {0, 1} : WF_vars(HttpTimerOf(a, g))

SpecHttpLive == InitHttp /\ [][NextHttpLive]_vars /\ HttpFairness


\* API_TYPES
API_TYPES == <<"carros", "motos", "caminhoes">>

\* MANUAL_DATA: some of its entries, flattened in the order of Object.entries
MANUAL_DATA ==
  << [tipo |-> "tratores", marca |-> <<"J","o","h","n"," ","D","e","e","r","e">>,
      modelos |-> <<<<"5","0","7","5","E">>>>],
     [tipo |-> "tratores", marca |-> <<"A","g","r","a","l","e">>,
      modelos |-> <<<<"4","2","3","0">>>>],
     [tipo |-> "tratores", marca |-> <<"J","o","h","n"," ","D","e","e","r","e">>,
      modelos |-> <<<<"S","4","3","0"," ","(","C","o","l","h","e","i","t","a","d","e","i","r","a",")">>>>],
     [tipo |-> "barcos", marca |-> <<"F","o","c","k","e","r">>,
      modelos |-> <<<<"1","6","0">>>>] >>

RATE_LIMIT_DELAY == 100

\* the most brands a brand list of the model holds, each brand with one model
HybridBrands == 1

\* the names of the modelos an answer of fetchModels can list: none, one, or
\* two names that differ by a punctuation mark only
HybridModelLists ==
  { <<>>, << <<"U","n","o">> >>, << <<"U","p","!">>, <<"U","p">> >> }

\* the object main pushes for one (brand, model, year)
HybridRecord(tipo, dbTipo, marca, modelo, ano, fipe_code) ==
  [id        |-> generateId(dbTipo, marca, modelo, ano),
   tipo      |-> dbTipo,
   marca     |-> marca,
   modelo    |-> modelo,
   ano       |-> ano,
   preco     |-> generatePrice(tipo, marca, modelo, ano),
   fipe_code |-> fipe_code]

\* the end of one turn of `for (const tipo of API_TYPES)`
HybridNextType(h) ==
  IF h.t < Len(API_TYPES)
    THEN [h EXCEPT !.pc = "apiType", !.t = @ + 1, !.brands = 0, !.b = 0]
    ELSE [h EXCEPT !.pc = "manual", !.brands = 0, !.b = 0]

\* const brands = await fetchBrands(tipo): a failed request gives [], an
\* answer that is no array makes `for (const brand of brands)` throw, and the
\* rejection of main() is only printed
HybridFetchBrands ==
  /\ hybrid.pc = "apiType"
  /\ \E kind \in {"fail", "list", "object"}, n \in 0..HybridBrands :
       LET asked == [hybrid EXCEPT
                      !.log = Append(@, [op |-> "get", tipo |-> API_TYPES[hybrid.t],
                                         level |-> 0])]
       IN  hybrid' =
             CASE kind = "object" -> [asked EXCEPT !.pc = "crashed"]
               [] kind = "fail" \/ n = 0 -> HybridNextType(asked)
               [] OTHER -> [asked EXCEPT !.pc = "brand", !.brands = n, !.b = 1]
  /\ UNCHANGED <<fullVars, call, manager, http>>

\* one turn of `for (const brand of brands)`: the pause, fetchModels (a failed
\* request or an answer without modelos gives []), and the records pushed
HybridBrand ==
  /\ hybrid.pc = "brand"
  /\ \E models \in HybridModelLists :
       LET tipo   == API_TYPES[hybrid.t]
           dbTipo == CASE tipo = "motos" -> "moto" [] tipo = "caminhoes" -> "caminhao"
                       [] OTHER -> "carro"
           asked  == [hybrid EXCEPT
                       !.log = @ \o << [op |-> "sleep", tipo |-> tipo,
                                        level |-> RATE_LIMIT_DELAY],
                                       [op |-> "get", tipo |-> tipo, level |-> 1] >>,
                       !.allVehicles = @ \o
                         Flatten([m \in DOMAIN models |->
                           [k \in 1..(CurrentYear + 2 - HYBRID_FIRST_YEAR) |->
                              HybridRecord(tipo, dbTipo, BrandNomes[hybrid.b],
                                           models[m],
                                           HYBRID_FIRST_YEAR + k - 1,
                                           NatToText(hybrid.b) \o <<"-">> \o NatToText(m))]])]
       IN  hybrid' = IF hybrid.b < hybrid.brands
                       THEN [asked EXCEPT !.b = @ + 1]
                       ELSE HybridNextType(asked)
  /\ UNCHANGED <<fullVars, call, manager, http>>

\* a mutant of HybridManual: the year after the current one is left out
HybridManualShortRange ==
  /\ hybrid.pc = "manual"
  /\ hybrid' = [hybrid EXCEPT
       !.pc = "finalize",
       !.allVehicles = @ \o
         Flatten([f \in DOMAIN MANUAL_DATA |->
           Flatten([m \in DOMAIN MANUAL_DATA[f].modelos |->
             [k \in 1..(CurrentYear + 1 - HYBRID_FIRST_YEAR) |->
                HybridRecord(MANUAL_DATA[f].tipo,
                             IF MANUAL_DATA[f].tipo = "barcos" THEN "barco" ELSE "trator",
                             MANUAL_DATA[f].marca, MANUAL_DATA[f].modelos[m],
                             HYBRID_FIRST_YEAR + k - 1, "MANUAL-SEED")]])])]
  /\ UNCHANGED <<fullVars, call, manager, http>>

\* step 2 of main: the loops over MANUAL_DATA, which await nothing
HybridManual ==
  /\ hybrid.pc = "manual"
  /\ hybrid' = [hybrid EXCEPT
       !.pc = "finalize",
       !.allVehicles = @ \o
         Flatten([f \in DOMAIN MANUAL_DATA |->
           Flatten([m \in DOMAIN MANUAL_DATA[f].modelos |->
             [k \in 1..(CurrentYear + 2 - HYBRID_FIRST_YEAR) |->
                HybridRecord(MANUAL_DATA[f].tipo,
                             IF MANUAL_DATA[f].tipo = "barcos" THEN "barco" ELSE "trator",
                             MANUAL_DATA[f].marca, MANUAL_DATA[f].modelos[m],
                             HYBRID_FIRST_YEAR + k - 1, "MANUAL-SEED")]])])]
  /\ UNCHANGED <<fullVars, call, manager, http>>

\* step 3 of main: the stats, the three files and, if GITHUB_OUTPUT is set,
\* the four lines appended to that file
HybridFinalize ==
  /\ hybrid.pc = "finalize"
  /\ \E isSet \in BOOLEAN :
       LET stats    == StatsOf(hybrid.allVehicles)
           output   == [version |-> Version, generated_at |-> GeneratedAt,
                        vehicles |-> hybrid.allVehicles, stats |-> stats]
           jsonStr  == JSONstringify(output)
           gzipped  == gzipSync(jsonStr)
           metadata == [version         |-> Version,
                        generated_at    |-> GeneratedAt,
                        vehicles_count  |-> Len(hybrid.allVehicles),
                        json_size_bytes |-> StringLength(jsonStr.vehicles),
                        gzip_size_bytes |-> ByteLength(gzipped.payload.vehicles),
                        stats           |-> stats]
       IN  hybrid' = [hybrid EXCEPT
             !.pc = "done",
             !.files = [json |-> <<jsonStr>>, gz |-> <<gzipped>>,
                        metadata |-> <<metadata>>,
                        githubOutput |->
                          IF isSet
                            THEN << [version        |-> Version,
                                     vehicles_count |-> Len(hybrid.allVehicles),
                                     gzip_size      |-> ByteLength(gzipped.payload.vehicles),
                                     stats          |-> stats] >>
                            ELSE <<>>]]
  /\ UNCHANGED <<fullVars, call, manager, http>>

InitHybrid ==
  /\ FullScraperIdle
  /\ call = NoCall /\ manager = NoManager /\ http = NoHttp
  /\ hybrid = [pc |-> "apiType", t |-> 1, brands |-> 0, b |-> 0,
               allVehicles |-> <<>>, log |-> <<>>, files |-> NoFiles]

NextHybrid == HybridFetchBrands \/ HybridBrand \/ HybridManual \/ HybridFinalize

SpecHybrid == InitHybrid /\ [][NextHybrid]_vars


(***************************************************************************)
(* The claims.                                                             *)
(***************************************************************************)
\* what the dataset invariants ask of a record: a price above zero and a
\* brand, a model and a year that are not empty
MeetsDatasetInvariants(v) ==
  v.preco > 0 /\ Len(v.marca) > 0 /\ Len(v.modelo) > 0 /\ v.ano # 0

\* the places of the input list whose record is the last valid one of its id
LastValidOfId(list) ==
  { n \in DOMAIN list :
      /\ MeetsDatasetInvariants(list[n])
      /\ \A m \in DOMAIN list :
           m > n /\ list[m].id = list[n].id => ~MeetsDatasetInvariants(list[m]) }

\* C1: mergeAndValidate returns at most one record per id, and the record of
\* an id is the last of the input records with that id that pass validation.
C1_LastWriteWins ==
  pc = "compress" =>
    /\ \A a, b \in DOMAIN merged.vehicles :
         merged.vehicles[a].id = merged.vehicles[b].id => a = b
    /\ \A n \in LastValidOfId(allVehicles) :
         \E k \in DOMAIN merged.vehicles : merged.vehicles[k] = allVehicles[n]

\* two valid input records share an id and differ, and the merge has run
C1_Witness ==
  /\ pc = "compress"
  /\ \E n, m \in DOMAIN allVehicles :
       /\ n < m
       /\ MeetsDatasetInvariants(allVehicles[n])
       /\ MeetsDatasetInvariants(allVehicles[m])
       /\ allVehicles[n].id = allVehicles[m].id
       /\ allVehicles[n].preco # allVehicles[m].preco
       /\ \E k \in DOMAIN merged.vehicles : merged.vehicles[k] = allVehicles[m]

\* C2: every record mergeAndValidate returns has a price above zero and a
\* brand, model and year that are not empty; an input record that fails one of
\* these is not in the output, and the id of one that meets them all is.
C2_ValidatedOutput ==
  pc = "compress" =>
    /\ \A k \in DOMAIN merged.vehicles : MeetsDatasetInvariants(merged.vehicles[k])
    /\ \A n \in DOMAIN allVehicles :
         IF MeetsDatasetInvariants(allVehicles[n])
           THEN \E k \in DOMAIN merged.vehicles :
                  merged.vehicles[k].id = allVehicles[n].id
           ELSE \A k \in DOMAIN merged.vehicles :
                  merged.vehicles[k] # allVehicles[n]

\* the merge has run on a list with a record of price zero and a valid one
C2_Witness ==
  /\ pc = "compress"
  /\ \E n, m \in DOMAIN allVehicles :
       /\ allVehicles[n].preco = 0
       /\ MeetsDatasetInvariants(allVehicles[m])
  /\ Len(merged.vehicles) > 0
  /\ Len(merged.vehicles) < Len(allVehicles)

\* did the n-th attempt of the call resolve?
Resolved(n) == fwr.attempts[n] \in Documents

\* C6: fetchWithRetry makes at most MAX_RETRIES attempts, returns the document
\* of the first attempt that resolves and makes no attempt after it, and waits
\* after every attempt that fails except the last one allowed.
C6_BoundedAttempts ==
  /\ Len(fwr.attempts) <= MAX_RETRIES
  /\ \A n \in DOMAIN fwr.attempts :
       Resolved(n) => /\ n = Len(fwr.attempts)
                      /\ fwr.pc = "returned"
                      /\ fwr.value = <<fwr.attempts[n]>>
  /\ fwr.pc = "returned" => fwr.attempts # <<>> /\ Resolved(Len(fwr.attempts))
  /\ Len(fwr.waits) =
       Cardinality({ n \in DOMAIN fwr.attempts : ~Resolved(n) /\ n < MAX_RETRIES })

\* the call returned at its last attempt, after two failures and two waits
C6_Witness ==
  /\ fwr.pc = "returned"
  /\ Len(fwr.attempts) = MAX_RETRIES
  /\ Len(fwr.waits) = MAX_RETRIES - 1

\* C7: fetchWithRetry throws exactly when all MAX_RETRIES attempts failed; the
\* error names the URL and the number of attempts, and the throw alone does
\* not end the process.
C7_FailsIffAllFailed ==
  /\ fwr.pc = "thrown" <=>
       /\ Len(fwr.attempts) = MAX_RETRIES
       /\ \A n \in DOMAIN fwr.attempts : ~Resolved(n)
  /\ fwr.pc = "thrown" =>
       /\ fwr.error = <<[attempts |-> MAX_RETRIES, url |-> fwr.url]>>
       /\ exitCode = <<>>
  /\ fwr.pc # "thrown" => fwr.error = <<>>

\* the call threw after three failed attempts
C7_Witness ==
  /\ fwr.pc = "thrown"
  /\ Len(fwr.attempts) = MAX_RETRIES
  /\ fwr.error # <<>>

\* is the price of year k of model j of brand b skipped in this run?
LeafSkipped(cat, b, j, k) ==
  \/ FaultAt(Node(cat, b, 0, 0)) # "ok"
  \/ FaultAt(Node(cat, b, j, 0)) # "ok"
  \/ FaultAt(Node(cat, b, j, k)) \in {"fail", "price0", "yearNaN"}

\* the record of a leaf in a run where every request is answered, for every
\* category and every leaf of the widest hierarchy
LeafRecords ==
  [c \in DOMAIN Categories, b \in 1..MaxBrands, j \in 1..MaxModels, k \in 1..MaxYears |->
     FipeRecord(Categories[c].dbTipo, MarcasAnswer(b)[b], ModelosAnswer(j)[j],
                AnosAnswer(k)[k], DetalheAnswer(k, "ok"))]

LeafRecord(cat, b, j, k) == LeafRecords[CategoryAt(cat), b, j, k]

\* the records of the leaves that are not skipped, in the order of the loops
RecordsExpected(cat) ==
  Flatten([b \in 1..world.brands |->
    Flatten([j \in 1..world.models |->
      Flatten([k \in 1..world.years |->
        IF LeafSkipped(cat, b, j, k) THEN <<>> ELSE LeafRecord(cat, b, j, k)])])])

\* C8: a model list, a year list or a price that fails costs fetchFipeVehicles
\* the records below that node only: the call returns, and with the records
\* of every other leaf, the same as in a run without the failure.
C8_PerNodeIsolation ==
  /\ fipe.pc = "thrown" => FaultAt(Node(fipe.apiTipo, 0, 0, 0)) = "bothFail"
  /\ fipe.pc = "returned" /\ FaultAt(Node(fipe.apiTipo, 0, 0, 0)) # "empty" =>
       fipe.vehicles = RecordsExpected(fipe.apiTipo)

\* the call returned records although the year list of a model failed
C8_Witness ==
  /\ fipe.pc = "returned"
  /\ fipe.vehicles # <<>>
  /\ \E f \in faults : f.kind = "fail" /\ f.node.j > 0 /\ f.node.k = 0

\* the place of a statement of main in the order main runs them
PcOrder ==
  <<"carros", "motos", "caminhoes", "tpt", "bombarco", "validate", "merge",
    "compress", "summary", "done">>

PcIndex(label) == CHOOSE n \in DOMAIN PcOrder : PcOrder[n] = label

\* the vehicles of the dataset a written file holds
VehiclesInJson == JSONparseArray(files.json[1].vehicles)

VehiclesInGzip == JSONparseArray(files.gz[1].payload.vehicles)

\* C3: the full scraper never persists a dataset with an empty vehicles list:
\* a run in which no record survives the merge writes no file and exits with
\* an error.
C3_NoEmptyDatasetPersisted ==
  /\ files.json # <<>> => VehiclesInJson # <<>>
  /\ files.gz # <<>> => VehiclesInGzip # <<>>
  /\ files.metadata # <<>> => files.metadata[1].vehicles_count > 0
  /\ PcIndex(pc) > PcIndex("merge") /\ merged.vehicles = <<>> =>
       /\ written = <<>>
       /\ pc = "done" => exitCode = <<1>>

\* a run whose merge dropped a record wrote the three files and exited with 0
C3_Witness ==
  /\ pc = "done" /\ exitCode = <<0>>
  /\ written = <<"vehicles_db.json", "vehicles_db.json.gz", "metadata.json">>
  /\ Len(merged.vehicles) < Len(allVehicles)
  /\ files.metadata[1].vehicles_count = Len(merged.vehicles)

\* what the integrity check of this run sees: the archive the file system
\* hands back decompresses, parses and holds as many vehicles as the dataset
IntegrityHolds ==
  LET read         == ReadGzip(FaultAt(Node("fs", 0, 0, 0)))
      decompressed == gunzipSync(read)
  IN  /\ decompressed.ok
      /\ JSONparse(decompressed.text).ok
      /\ Len(JSONparse(decompressed.text).value.vehicles) = Len(merged.vehicles)

\* C4: compressAndWrite writes metadata.json only after the integrity check
\* has passed; when the counts differ the call throws and metadata.json is
\* not written in that run.
C4_MetadataAfterIntegrity ==
  /\ files.metadata # <<>> =>
       /\ SubSeq(written, 1, 3)
            = <<"vehicles_db.json", "vehicles_db.json.gz", "metadata.json">>
       /\ IntegrityHolds
  /\ cw.pc \in {"writeMetadata", "returned"} => IntegrityHolds
  /\ cw.pc = "thrown" =>
       /\ ~IntegrityHolds
       /\ files.metadata = <<>>
       /\ written = <<"vehicles_db.json", "vehicles_db.json.gz">>
       /\ pc = "done" => exitCode = <<1>>

\* the check read back an archive of another count: the call threw, the run
\* ended and metadata.json is not there
C4_Witness ==
  /\ cw.pc = "thrown" /\ pc = "done"
  /\ FaultAt(Node("fs", 0, 0, 0)) = "stale"
  /\ files.gz # <<>> /\ files.metadata = <<>>

BrandListFailed(c) == FaultAt(Node(Categories[c].apiTipo, 0, 0, 0)) = "bothFail"

RecordsOfTipo(tipo) == { n \in DOMAIN allVehicles : allVehicles[n].tipo = tipo }

ErrorsOf(source) == { n \in DOMAIN errors : errors[n].source = source }

Requested(site, cat) ==
  \E n \in DOMAIN log : log[n].op = "get" /\ log[n].site = site /\ log[n].cat = cat

\* C9: when the brand list of a category fails on the primary endpoint and on
\* the fallback endpoint, fetchFipeVehicles throws; main adds no record of the
\* category, appends one entry for it to errors, and goes on to every later
\* category.
C9_CategoryFailure ==
  /\ fipe.pc = "thrown" => BrandListFailed(CategoryAt(fipe.apiTipo))
  /\ \A c \in DOMAIN Categories :
       /\ BrandListFailed(c) /\ PcIndex(pc) = c => fipe.pc \in {"fallback", "thrown"}
       /\ BrandListFailed(c) /\ PcIndex(pc) > c =>
            /\ RecordsOfTipo(Categories[c].dbTipo) = {}
            /\ Cardinality(ErrorsOf(Categories[c].apiTipo)) = 1
       /\ ~BrandListFailed(c) => ErrorsOf(Categories[c].apiTipo) = {}
       /\ BrandListFailed(c) /\ pc = "done" =>
            /\ \A d \in DOMAIN Categories : d > c => Requested("fipe", Categories[d].apiTipo)
            /\ Requested("tpt", "tpt")
            /\ Requested("bombarco", "bombarco")

\* the brand list of the first category failed twice; the run went on, took
\* the records of the second category and ended
C9_Witness ==
  /\ pc = "done"
  /\ BrandListFailed(1)
  /\ Len(errors) = 1
  /\ RecordsOfTipo(Categories[1].dbTipo) = {}
  /\ RecordsOfTipo(Categories[2].dbTipo) # {}

\* did the live collection of the category of these records fail entirely?
CollectionFailed(tipo) ==
  CASE tipo = "trator" -> FaultAt(Node("tpt", 0, 0, 0)) = "fail"
    [] tipo = "barco"  -> FaultAt(Node("bombarco", 0, 0, 0)) = "fail"
    [] OTHER -> \E c \in DOMAIN Categories :
                  Categories[c].dbTipo = tipo /\ BrandListFailed(c)

\* C10: for each of the five categories, when its live collection fails
\* entirely the accumulated list still holds records of the category, those
\* of the seed generator.
C10_FallbackOnTotalFailure ==
  PcIndex(pc) > PcIndex("bombarco") =>
    \A tipo \in {"carro", "moto", "caminhao", "trator", "barco"} :
      CollectionFailed(tipo) => RecordsOfTipo(tipo) # {}


\* the place in main's order of the category a record type belongs to
CategoryOfTipo(tipo) ==
  CASE tipo = "carro" -> 1
    [] tipo = "moto" -> 2
    [] tipo = "caminhao" -> 3
    [] tipo \in {"trator", "colheitadeira"} -> 4
    [] tipo = "barco" -> 5

\* C11: main handles the categories one after the other in the order carros,
\* motos, caminhoes, tractors, boats: every request and every pause logged so
\* far belongs to a category main has already reached, the log never goes
\* back to an earlier category, a running fetchFipeVehicles call is the one of
\* main's current category, and in allVehicles every record of an earlier
\* category stands before every record of a later one (no record is followed
\* by one of an earlier category).
C11_SequentialCategories ==
  /\ \A n \in DOMAIN log :
       /\ PcIndex(log[n].cat) <= PcIndex(pc)
       /\ pc = log[n].cat /\ pc \in ApiTipos => fipe.pc # "idle"
       /\ n > 1 => PcIndex(log[n - 1].cat) <= PcIndex(log[n].cat)
  /\ fipe.pc # "idle" => pc \in ApiTipos /\ fipe.apiTipo = pc
  /\ \A n \in DOMAIN allVehicles :
       /\ CategoryOfTipo(allVehicles[n].tipo) < PcIndex(pc)
       /\ n > 1 =>
            CategoryOfTipo(allVehicles[n - 1].tipo) <= CategoryOfTipo(allVehicles[n].tipo)

\* a finished run that collected records of all five categories
C11_Witness ==
  /\ pc = "done"
  /\ \A c \in 1..5 : \E n \in DOMAIN allVehicles : CategoryOfTipo(allVehicles[n].tipo) = c
  /\ \A cat \in ApiTipos \cup {"tpt", "bombarco"} :
       \E n \in DOMAIN log : log[n].op = "get" /\ log[n].cat = cat

\* C12: the process ends with exit code 0 exactly when the merged dataset is
\* not empty and the integrity check did not fail, whether or not a category
\* was recorded in errors; it ends with a non-zero code when nothing was
\* collected or when the integrity check failed.  A check that ran and let
\* the run end with 0 is one that passed.
C12_ExitCodes ==
  /\ exitCode # <<>> <=> pc = "done"
  /\ pc = "done" =>
       /\ exitCode \in {<<0>>, <<1>>}
       /\ exitCode = <<0>> <=> merged.vehicles # <<>> /\ cw.pc # "thrown"
       /\ exitCode = <<0>> /\ ~DRY_RUN => cw.pc = "returned" /\ IntegrityHolds
       /\ cw.pc = "thrown" => ~IntegrityHolds

\* a category failed and was recorded, the dataset was written and checked,
\* and the run ended with 0
C12_Witness ==
  /\ pc = "done" /\ exitCode = <<0>>
  /\ errors # <<>>
  /\ merged.vehicles # <<>>
  /\ cw.pc = "returned" /\ IntegrityHolds

\* C13: with --dry-run a run of the full scraper writes no file at all, not
\* vehicles_db.json, not the archive, not metadata.json, nor any other file,
\* while the collectors and mergeAndValidate still run.
C13_DryRunWritesNothing ==
  DRY_RUN =>
    /\ written = <<>>
    /\ files = NoFiles
    /\ pc \in {"summary", "done"} =>
         /\ \A cat \in ApiTipos \cup {"tpt", "bombarco"} :
              \E n \in DOMAIN log : log[n].op = "get" /\ log[n].cat = cat
         /\ merged = mergeAndValidate(allVehicles)

\* C14: the id generateId returns holds only characters of [a-z0-9-], does not
\* start or end with a hyphen and has no two hyphens in a row, also when a
\* component normalizes to the empty text.
C14_IdShape ==
  call.fn = "generateId" /\ call.pc = "returned" =>
    /\ \A k \in DOMAIN call.out : call.out[k] \in SlugSet \cup {"-"}
    /\ call.out # <<>> /\ call.out[1] # "-" /\ call.out[Len(call.out)] # "-"
    /\ \A k \in 1..(Len(call.out) - 1) : ~(call.out[k] = "-" /\ call.out[k + 1] = "-")

\* C15: generatePrice returns a positive integer, and for the same type, brand
\* and model the older of two consecutive years of the generated range (ages
\* from -1, for currentYear + 1, upwards) gets a strictly smaller price.
C15_PriceFallsWithAge ==
  call.fn = "generatePrice" /\ call.pc = "returned" =>
    /\ call.out \in Nat \ {0}
    /\ call.ano < CurrentYear + 1 =>
         call.out < generatePrice(call.tipo, call.marca, call.modelo, call.ano + 1)

\* C16: two runs of a seed generator on the same catalog and year range give
\* the same records: the same ids in the same order and for each the same
\* type, brand, model, year and price.
C16_SeedIdempotent ==
  call.fn \in SeedGenerators /\ Len(call.runs) = 2 =>
    /\ Len(call.runs[1]) = Len(call.runs[2])
    /\ \A n \in DOMAIN call.runs[1] :
         \A field \in {"id", "tipo", "marca", "modelo", "ano", "preco"} :
           call.runs[1][n][field] = call.runs[2][n][field]

\* the (brand entry, model, year) combinations of the manual tractor catalog
TractorCombinations ==
  Flatten([f \in DOMAIN MANUAL_DATA |->
    IF MANUAL_DATA[f].tipo # "tratores" THEN <<>>
    ELSE Flatten([m \in DOMAIN MANUAL_DATA[f].modelos |->
           [k \in 1..(CurrentYear + 2 - HYBRID_FIRST_YEAR) |->
              [marca |-> MANUAL_DATA[f].marca, modelo |-> MANUAL_DATA[f].modelos[m],
               ano |-> HYBRID_FIRST_YEAR + k - 1]]])])

\* C17: the hybrid scraper issues no request for tractors; once the manual
\* catalog has been processed its tractor records are exactly one per (brand
\* entry, model, year of 2010..currentYear + 1) of the catalog, all marked
\* MANUAL-SEED, and the stats of the written dataset count as many tractors
\* as there are such combinations.
C17_TractorsFromCatalog ==
  /\ hybrid.pc # "idle" =>
       \A n \in DOMAIN hybrid.log : hybrid.log[n].tipo \in Range(API_TYPES)
  /\ hybrid.pc \in {"apiType", "brand", "manual", "crashed"} =>
       \A n \in DOMAIN hybrid.allVehicles : hybrid.allVehicles[n].tipo # "trator"
  /\ hybrid.pc \in {"finalize", "done"} =>
       LET tratores == SelectSeq(hybrid.allVehicles, LAMBDA v : v.tipo = "trator")
       IN  /\ Len(tratores) = Len(TractorCombinations)
           /\ \A n \in DOMAIN tratores :
                /\ tratores[n].fipe_code = "MANUAL-SEED"
                /\ tratores[n].marca = TractorCombinations[n].marca
                /\ tratores[n].modelo = TractorCombinations[n].modelo
                /\ tratores[n].ano = TractorCombinations[n].ano
  /\ hybrid.pc = "done" =>
       /\ hybrid.files.json[1].stats["trator"] = Len(TractorCombinations)
       /\ hybrid.files.metadata[1].stats["trator"] = Len(TractorCombinations)

\* a finished run that also collected records from the API
C17_Witness ==
  /\ hybrid.pc = "done"
  /\ hybrid.files.json # <<>>
  /\ \E n \in DOMAIN hybrid.allVehicles : hybrid.allVehicles[n].tipo = "carro"
  /\ \E n \in DOMAIN hybrid.allVehicles : hybrid.allVehicles[n].tipo = "trator"
  /\ \E n \in DOMAIN hybrid.log : hybrid.log[n].op = "get"

\* C18: when every request of a fetchFipeVehicles call is answered, the
\* result holds exactly one record for each (brand, model, year) leaf whose
\* price is above zero and whose year parses, so brands * models * years
\* records when every leaf is such; every record has a price above zero and
\* the domain type of the call.
C18_OneRecordPerLeaf ==
  fipe.pc = "returned"
    /\ (\A f \in faults : f.kind \in {"noAnoModelo", "price0", "yearNaN"}) =>
    LET leaves == (1..world.brands) \X (1..world.models) \X (1..world.years)
        kept   == { l \in leaves :
                      FaultAt(Node(fipe.apiTipo, l[1], l[2], l[3]))
                        \notin {"price0", "yearNaN"} }
    IN  /\ Len(fipe.vehicles) = Cardinality(kept)
        /\ faults = {} =>
             Len(fipe.vehicles) = world.brands * world.models * world.years
        /\ \A n \in DOMAIN fipe.vehicles :
             fipe.vehicles[n].preco > 0 /\ fipe.vehicles[n].tipo = fipe.dbTipo
        /\ \A l \in kept :
             Cardinality({ n \in DOMAIN fipe.vehicles :
                             /\ fipe.vehicles[n].marca = BrandNomes[l[1]]
                             /\ fipe.vehicles[n].modelo = ModelosAnswer(l[2])[l[2]].nome
                             /\ fipe.vehicles[n].ano = 2010 + l[3] }) = 1

\* a call that returned after every request was answered as expected
C18_Witness ==
  /\ fipe.pc = "returned"
  /\ faults = {}
  /\ Len(fipe.vehicles) = MaxBrands * MaxModels * MaxYears
  /\ Len(fipe.vehicles) > 1

\* C19: a run of the seed-first manager that finds no database file, or is
\* given --reset, writes the seed dataset and calls no API; a run that finds
\* the file and has no --reset loads its vehicles, and updates their prices
\* and adds the new years through the API.
C19_SeedOrIncremental ==
  manager.pc = "done" =>
    IF manager.existing = <<>> \/ manager.forceReset
      THEN /\ manager.log = <<>>
           /\ JSONparse(manager.files.json[1]).value.vehicles
                = generateSeedData(SEED_DATA)
      ELSE "vehicles" \in DOMAIN manager.existing[1] /\ manager.existing[1].vehicles # <<>> =>
             /\ \E n \in DOMAIN manager.log : manager.log[n].op = "get"
             /\ \E n \in DOMAIN manager.vehicles :
                  manager.vehicles[n].ano = CurrentYear + 1

\* C20: when an attempt of httpGet exceeds the 30 seconds, its request is
\* destroyed and the attempt fails with a timeout error, so no request of an
\* earlier attempt is in flight once fetchWithRetry has started the next one.
C20_TimeoutAborts ==
  \A a \in DOMAIN http.reqs :
    /\ http.reqs[a].timer = "fired" => http.reqs[a].req # "inflight"
    /\ http.reqs[a].timer = "fired" =>
         http.reqs[a].promise = "rejected" /\ http.reqs[a].value = "Timeout"
    /\ http.reqs[a].attempt < http.i /\ http.pc = "await" =>
         http.reqs[a].req # "inflight"

\* C21: a promise of httpGet that is settled keeps its state and value, and a
\* step changes the promise of a request only when the request that acted in
\* the step (its response, error, redirect, timer or socket timeout) belongs
\* to the same attempt: what arrives for an attempt after its timeout leaves
\* the promises of every other attempt as they are.
C21_TimeoutLocality ==
  [][ \A a \in DOMAIN http.reqs :
        /\ http.reqs[a].promise # "pending" =>
             /\ http'.reqs[a].promise = http.reqs[a].promise
             /\ http'.reqs[a].value = http.reqs[a].value
        /\ http'.reqs[a].promise # http.reqs[a].promise =>
             \A b \in DOMAIN http.reqs :
               (\/ http'.reqs[b].req # http.reqs[b].req
                \/ http'.reqs[b].timer # http.reqs[b].timer)
                 => http.reqs[b].attempt = http.reqs[a].attempt ]_vars

\* the answer to the first attempt came after its timer had fired, and a
\* later attempt was answered and made the call return
C21_Witness ==
  /\ http.pc = "returned"
  /\ \E a \in DOMAIN http.reqs :
       /\ http.reqs[a].attempt < http.i
       /\ http.reqs[a].timer = "fired"
       /\ http.reqs[a].req \in {"ended", "redirected"}
       /\ http.reqs[a].promise = "rejected" /\ http.reqs[a].value = "Timeout"

\* C22: when an attempt gets a 2xx response whose body is not valid JSON,
\* fetchWithRetry fails for the URL and makes no further attempt.
C22_ParseNotRetried ==
  \A n \in DOMAIN http.outcomes :
    http.outcomes[n] = "parse" =>
      /\ http.pc = "thrown"
      /\ \A a \in DOMAIN http.reqs : http.reqs[a].attempt < n

C24_BackoffDelay ==
  /\ \A n \in DOMAIN fwr.waits :
       /\ fwr.waits[n] >= 2^(n - 1) * 1000
       /\ fwr.waits[n] < 2^(n - 1) * 1000 + 500
       /\ n - 1 <= MAX_RETRIES - 2
  /\ \A n \in 1..(Len(fwr.waits) - 1) : fwr.waits[n] < fwr.waits[n + 1]

\* a call has waited twice, the first time with the jitter at its upper end
C24_Witness ==
  /\ Len(fwr.waits) = MAX_RETRIES - 1
  /\ fwr.waits[1] = 1499
  /\ fwr.waits[2] >= 2000

\* is the n-th logged operation a child fetch: the models of a brand, the
\* years of a model or the price of a year?
IsChildFetch(n) == log[n].op = "get" /\ log[n].level >= 1

\* C25: between two consecutive child fetches of the collector within one
\* category there is a sleep: no child fetch directly follows another one
\* of the same category.
C25_SleepBetweenChildFetches ==
  \A n \in 1..(Len(log) - 1) :
    IsChildFetch(n) /\ IsChildFetch(n + 1) => log[n].cat # log[n + 1].cat

\* the records of a set of types that main passes on to the merge, in order
PassedOn(tipos) == SelectSeq(allVehicles, LAMBDA v : v.tipo \in tipos)

\* C26: for every category, when the live collection yields fewer than 10
\* records, the records of the category passed on to the merge are those of
\* its seed generator: what is passed on is a seed dataset or 10 live records
\* at least (no seed generator exists for the three API categories).
C26_UsefulnessThreshold ==
  pc = "validate" =>
    /\ \/ Len(PassedOn({"trator", "colheitadeira"})) >= 10
          /\ FaultAt(Node("tpt", 0, 0, 0)) \in {"row", "rowAno0", "rowBad"}
       \/ \E state \in DOMAIN TPTSeedData :
            PassedOn({"trator", "colheitadeira"}) = TPTSeedData[state].vehicles
    /\ \/ Len(PassedOn({"barco"})) >= 10
          /\ FaultAt(Node("bombarco", 0, 0, 0)) = "overThreshold"
       \/ \E state \in DOMAIN BombarcoSeedData :
            PassedOn({"barco"}) = BombarcoSeedData[state].vehicles
    /\ \A c \in DOMAIN Categories : Len(PassedOn({Categories[c].dbTipo})) >= 10

\* the answer a set of recorded faults gives for a node
KindIn(fs, node) ==
  IF \E f \in fs : f.node = node THEN (CHOOSE f \in fs : f.node = node).kind
  ELSE "ok"

\* the step of fetchFipeVehicles that handles the price record of one year
LeafStep ==
  LET marca  == fipe.marcas[fipe.i + 1]
      modelo == fipe.modelos[fipe.j]
      ano    == fipe.anos[fipe.k]
      kind   == KindIn(faults', FipeNode(marca.codigo, modelo.codigo, ano.codigo))
      before == Len(fipe.vehicles)
  IN  /\ Len(fipe'.vehicles) >= before
      /\ SubSeq(fipe'.vehicles, 1, before) = fipe.vehicles
      /\ kind \in {"price0", "yearNaN"} => fipe'.vehicles = fipe.vehicles
      /\ kind \in {"ok", "noAnoModelo"} =>
           /\ Len(fipe'.vehicles) = before + 1
           /\ fipe'.vehicles[before + 1].marca = marca.nome
           /\ fipe'.vehicles[before + 1].modelo = modelo.nome
           /\ fipe'.vehicles[before + 1].ano = 2010 + ano.codigo
      /\ IF fipe.k < Len(fipe.anos)
           THEN fipe'.pc = "detalhe" /\ fipe'.k = fipe.k + 1 /\ fipe'.j = fipe.j
           ELSE fipe'.pc = "sleepModel"

\* C27: in fetchFipeVehicles a year whose price parses to 0 or less, or whose
\* year does not parse, adds no record; every record collected has a price
\* above zero and a whole number as its year; and a year that is dropped
\* leaves the records collected so far as they are and the loop at the next
\* year of the same model.
C27_LeafFiltering ==
  /\ [](\A n \in DOMAIN fipe.vehicles :
          fipe.vehicles[n].preco > 0 /\ fipe.vehicles[n].ano \in Int)
  /\ [][fipe.pc = "detalhe" => LeafStep]_vars

\* a call returned the record of the year after one whose year does not
\* parse, of the same model, and no record of the year that does not parse
C27_Witness ==
  /\ fipe.pc = "returned"
  /\ \E f \in faults :
       /\ f.kind = "yearNaN" /\ f.node.k > 0 /\ f.node.k < world.years
       /\ \E n \in DOMAIN fipe.vehicles :
            /\ fipe.vehicles[n].ano = 2010 + f.node.k + 1
            /\ fipe.vehicles[n].marca = BrandNomes[f.node.b]
            /\ fipe.vehicles[n].modelo = ModelosAnswer(f.node.j)[f.node.j].nome
       /\ \A n \in DOMAIN fipe.vehicles :
            fipe.vehicles[n].marca = BrandNomes[f.node.b]
              /\ fipe.vehicles[n].modelo = ModelosAnswer(f.node.j)[f.node.j].nome
              => fipe.vehicles[n].ano # 2010 + f.node.k

\* the place of a type in the order motorcycle, car, tractor, boat, truck
PriceRank(tipo) ==
  CASE tipo = "motos" -> 1
    [] tipo = "carros" -> 2
    [] tipo = "tratores" -> 3
    [] tipo = "barcos" -> 4
    [] tipo = "caminhoes" -> 5

\* C28: the base price chosen for the type of a call is below that of every
\* type later in the order motorcycle < car < tractor < boat < truck, and
\* lies between 15,000 and 500,000, in generatePrice of the hybrid scraper
\* and in generateSeedData of the seed-first manager.
C28_BasePriceOrder ==
  call.fn = "generatePrice" =>
    /\ \A other \in PriceTipos :
         PriceRank(call.tipo) < PriceRank(other) =>
           /\ basePrice(call.tipo) < basePrice(other)
           /\ seedBasePrice(call.tipo) < seedBasePrice(other)
    /\ basePrice(call.tipo) >= 15000 /\ basePrice(call.tipo) <= 500000
    /\ seedBasePrice(call.tipo) >= 15000 /\ seedBasePrice(call.tipo) <= 500000

\* the ids of the input records of a type that pass the validation
ValidIdsOfTipo(tipo) ==
  { allVehicles[n].id :
      n \in { m \in DOMAIN allVehicles :
                allVehicles[m].tipo = tipo /\ MeetsDatasetInvariants(allVehicles[m]) } }

RECURSIVE SumOver(_, _)
SumOver(f, keys) ==
  IF keys = {} THEN 0
  ELSE LET k == CHOOSE x \in keys : TRUE
       IN  f[k] + SumOver(f, keys \ {k})

\* C29: in the result of mergeAndValidate, stats holds for every type the
\* number of records of the type that survive, that is one per id of the
\* valid input records of the type; a type without surviving record has no
\* entry; and the entries add up to the number of vehicles.
C29_StatsPerType ==
  pc = "compress" =>
    /\ DOMAIN merged.stats =
         { merged.vehicles[k].tipo : k \in DOMAIN merged.vehicles }
    /\ \A tipo \in DOMAIN merged.stats :
         /\ merged.stats[tipo] =
              Cardinality({ k \in DOMAIN merged.vehicles :
                              merged.vehicles[k].tipo = tipo })
         /\ merged.stats[tipo] = Cardinality(ValidIdsOfTipo(tipo))
         /\ merged.stats[tipo] > 0
    /\ SumOver(merged.stats, DOMAIN merged.stats) = Len(merged.vehicles)

\* the merge has run on records of two types, two of them with one id, and
\* the type of a record without price has no entry
C29_Witness ==
  /\ pc = "compress"
  /\ Cardinality(DOMAIN merged.stats) = 1
  /\ \E tipo \in DOMAIN merged.stats : merged.stats[tipo] = 1
  /\ Len(allVehicles) = 3
  /\ \E n \in DOMAIN allVehicles :
       allVehicles[n].tipo \notin DOMAIN merged.stats /\ allVehicles[n].preco = 0
  /\ \E n, m \in DOMAIN allVehicles :
       n < m /\ allVehicles[n].id = allVehicles[m].id
         /\ MeetsDatasetInvariants(allVehicles[n])

\* do the sizes of a metadata document match the files written with it?
SizesMatch(written_files) ==
  /\ written_files.metadata[1].json_size_bytes
       = FileSize(written_files.json[1].vehicles)
  /\ written_files.metadata[1].gzip_size_bytes
       = FileSize(written_files.gz[1].payload.vehicles)

\* C30: in every run that writes metadata.json, of the full scraper, of the
\* hybrid scraper and of the seed-first manager, json_size_bytes is the size
\* in bytes of the vehicles_db.json written in the run and gzip_size_bytes
\* that of vehicles_db.json.gz, also when a brand or model name is not ASCII.
C30_MetadataByteSizes ==
  /\ files.metadata # <<>> => SizesMatch(files)
  /\ hybrid.pc = "done" /\ hybrid.files.metadata # <<>> => SizesMatch(hybrid.files)
  /\ manager.pc = "done" /\ manager.files.metadata # <<>> => SizesMatch(manager.files)

\* C31: the vehicles the hybrid scraper persists in vehicles_db.json have
\* pairwise distinct ids, whatever brand lists and model lists the API
\* returned.
C31_HybridUniqueIds ==
  hybrid.pc = "done" =>
    LET vehicles == JSONparseArray(hybrid.files.json[1].vehicles)
    IN  Cardinality({ vehicles[n].id : n \in DOMAIN vehicles }) = Len(vehicles)

\* the least price, in hundredths, a seed generator gives a record of a type:
\* round(base * floor) for the least base of the type
SeedPriceFloor(tipo) ==
  CASE tipo = "trator" -> 45000 * 100
    [] tipo = "colheitadeira" -> 150000 * 100
    [] tipo = "barco" -> 8000 * 100

\* C32: whatever the request and the scraping give, fetchTPTVehicles and
\* fetchBombarcoVehicles hand main at least one record each, every one with
\* a price above zero, and a seed record costs at least base * floor; so
\* allVehicles is not empty when main validates it, and main never exits
\* with "No vehicles collected".
C32_CollectorsAlwaysDeliver ==
  /\ PcIndex(pc) > PcIndex("tpt") =>
       LET tratores == PassedOn({"trator", "colheitadeira"})
       IN  /\ tratores # <<>>
           /\ \A n \in DOMAIN tratores :
                /\ tratores[n].preco > 0
                /\ FaultAt(Node("tpt", 0, 0, 0)) \notin {"row", "rowAno0"} =>
                     tratores[n].preco >= SeedPriceFloor(tratores[n].tipo)
  /\ PcIndex(pc) > PcIndex("bombarco") =>
       LET barcos == PassedOn({"barco"})
       IN  /\ barcos # <<>>
           /\ \A n \in DOMAIN barcos :
                /\ barcos[n].preco > 0
                /\ FaultAt(Node("bombarco", 0, 0, 0)) # "overThreshold" =>
                     barcos[n].preco >= SeedPriceFloor("barco")
  /\ pc = "validate" => Len(allVehicles) > 0
  /\ pc = "done" => Len(allVehicles) > 0

\* main validates a list after the TPT request failed: the tractors and the
\* boats in it are seed records
C32_Witness ==
  /\ pc = "validate"
  /\ FaultAt(Node("tpt", 0, 0, 0)) = "fail"
  /\ Len(PassedOn({"trator", "colheitadeira"})) > 1
  /\ Len(PassedOn({"barco"})) > 1

\* C33: every call of fetchWithRetry completes, by returning or by throwing,
\* whatever the server does: no answer, errors, bodies that do not parse, or
\* a redirect in answer to every request.
C33_FetchCompletes == <>(http.pc \in {"returned", "thrown"})

=============================================================================
